---------------------------- MODULE Spec2Model ----------------------------
(***************************************************************************)
(* Model of the playback engine of src/app/audio_engine.py (AudioEngine):  *)
(* one control-path caller issuing play/pause/resume/stop/seek/            *)
(* set_output_device/set_music_dir, and one streaming loop                 *)
(* (_playback_loop) per play() call, each tied to its own pair of          *)
(* threading.Event objects.  The engine is constructed on a configuration  *)
(* file, which the two setters rewrite after their lock block; a write     *)
(* that fails leaves the file as it was when it could not be opened and    *)
(* cut short when it was.  Whether alsaaudio.PCM(...) returns a handle or  *)
(* raises is the sound system's choice at every call.                      *)
(*                                                                         *)
(* Every `with self._lock:` / `with self._seek_lock:` block is one atomic  *)
(* step.  Reads of the Event objects and of self.alsa_card by the loop are *)
(* not under a lock in the code and are steps of their own: the stop test  *)
(* of the open loop and the open that follows it, the evaluation of the    *)
(* classifier's arguments and the store of its verdict.                    *)
(*                                                                         *)
(* Time: the engine's positions are counted in frame periods, every track  *)
(* at one rate there, so `seconds * samplerate` and `frames / samplerate`  *)
(* are exact on the values used here.  The analyzer                        *)
(* (src/visualizer_window.py) is modelled on its own: it reads the tagged  *)
(* rate of the engine's current track at every analysis.                   *)
(***************************************************************************)
EXTENDS Integers, Sequences, FiniteSets, TLC

\* ------------------------------------------------------------------ bounds

\* Number of play() calls that reach the lock section (sessions launched).
MaxPlays == 2
\* Analyzer: length of the rolling buffer (constructor argument fft_size);
\* hanning and LevelTable are the window and the spectrum of this length.
fft_size == 3
\* Analyzer: number of bands (constructor argument bands).
bands == 1
\* Analyzer: cap on the samples pushed in one behaviour.
MaxSamples == 4
\* Analyzer: the wall clock at construction, in hundredths of a second.
StartClock == 1000

\* ------------------------------------------------------- program constants

BUFFER_FRAMES == 4096
max_retries == 80
\* base_delay of the open retries, in milliseconds.
base_delay == 30

\* Analyzer defaults: the smoothing factor 0.7 in hundredths (the slider's
\* unit), the hold time 1.2 s in hundredths of a second (the slider's unit).
smoothing_default == 70
peak_hold_seconds == 120

IDLE == "idle"
PLAYING == "playing"
PAUSED == "paused"
STOPPED == "stopped"

\* A text built by the program: the sequence of its parts (a literal, or a
\* literal followed by the value formatted into it).  The empty string is the
\* empty sequence.
Text(literal) == <<literal>>
EmptyText == << >>

\* Optional values: None is the empty tuple, a present value v is <<v>>.
None == << >>
Some(v) == <<v>>

Max(a, b) == IF a >= b THEN a ELSE b
Min(a, b) == IF a <= b THEN a ELSE b

\* ------------------------------------------------------ float32 arithmetic

\* A float32 of the analyzer's arrays: sign, significand m (0 for zero,
\* otherwise 2^23 <= m < 2^24) and exponent e, the value being m * 2^e.
\* The values of the analyzer stay far from both ends of the exponent range.
F32(neg, m, e) == [neg |-> neg, m |-> m, e |-> e]
F32Zero == F32(FALSE, 0, 0)

\* The significand q rounded up or not, carried into the next binade when it
\* reaches 2^24.
F32Round(neg, q, up, e) ==
    LET q2 == IF up THEN q + 1 ELSE q
    IN IF q2 = 2^24 THEN F32(neg, 2^23, e + 1) ELSE F32(neg, q2, e)

\* Round to nearest, ties to even: r is the remainder left below q, half
\* the weight of half a unit of q.
RoundUp(q, r, half) == r > half \/ (r = half /\ q % 2 = 1)

\* a * b, the 48-bit product built from 12-bit halves.
F32Mul(a, b) ==
    IF a.m = 0 \/ b.m = 0 THEN F32Zero
    ELSE LET ah == a.m \div 2^12
             al == a.m % 2^12
             bh == b.m \div 2^12
             bl == b.m % 2^12
             cross == ah * bl + al * bh
             lo == (cross % 2^12) * 2^12 + al * bl
             L == lo % 2^24
             H == ah * bh + (cross \div 2^12) + (lo \div 2^24)
             neg == a.neg # b.neg
             e == a.e + b.e
         IN IF H >= 2^23
            THEN F32Round(neg, H, RoundUp(H, L, 2^23), e + 24)
            ELSE F32Round(neg, 2 * H + (L \div 2^23),
                          RoundUp(2 * H + (L \div 2^23), L % 2^23, 2^22), e + 23)

\* n more bits of the quotient of a long division by d: <<quotient, remainder>>.
RECURSIVE DivBits(_, _, _, _)
DivBits(q, r, d, n) ==
    IF n = 0 THEN <<q, r>>
    ELSE IF 2 * r >= d THEN DivBits(2 * q + 1, 2 * r - d, d, n - 1)
         ELSE DivBits(2 * q, 2 * r, d, n - 1)

\* a / b, b not zero.
F32Div(a, b) ==
    IF a.m = 0 THEN F32Zero
    ELSE LET qr == IF a.m >= b.m THEN DivBits(1, a.m - b.m, b.m, 23)
                   ELSE DivBits(0, a.m, b.m, 24)
             e == IF a.m >= b.m THEN a.e - b.e - 23 ELSE a.e - b.e - 24
         IN F32Round(a.neg # b.neg, qr[1], RoundUp(qr[1], 2 * qr[2], b.m), e)

\* |a| < |b|
MagLt(a, b) ==
    IF a.m = 0 THEN b.m # 0
    ELSE IF b.m = 0 THEN FALSE
    ELSE a.e < b.e \/ (a.e = b.e /\ a.m < b.m)

\* x shifted right by d bits, the bits shifted out kept as a sticky last bit.
ShiftRightSticky(x, d) ==
    IF d >= 31 THEN (IF x > 0 THEN 1 ELSE 0)
    ELSE LET fl == x \div 2^d
         IN IF x % 2^d # 0 /\ fl % 2 = 0 THEN fl + 1 ELSE fl

\* A sum below 2^26 shifted left until it is not: <<sum, exponent>>.
RECURSIVE NormLeft(_, _)
NormLeft(S, E) == IF S < 2^26 THEN NormLeft(2 * S, E - 1) ELSE <<S, E>>

\* a + b, on significands with three guard bits.
F32Add(a, b) ==
    IF a.m = 0 THEN b
    ELSE IF b.m = 0 THEN a
    ELSE LET x == IF MagLt(a, b) THEN b ELSE a
             y == IF MagLt(a, b) THEN a ELSE b
             X == 8 * x.m
             Y == ShiftRightSticky(8 * y.m, Min(x.e - y.e, 31))
             S == IF x.neg = y.neg THEN X + Y ELSE X - Y
             T == IF S >= 2^27 THEN <<ShiftRightSticky(S, 1), x.e - 2>>
                  ELSE NormLeft(S, x.e - 3)
         IN IF S = 0 THEN F32Zero
            ELSE F32Round(x.neg, T[1] \div 8,
                          RoundUp(T[1] \div 8, T[1] % 8, 4), T[2] + 3)

\* -a and a - b
F32Neg(a) == IF a.m = 0 THEN a ELSE F32(~a.neg, a.m, a.e)
F32Sub(a, b) == F32Add(a, F32Neg(b))

\* a < b
F32Lt(a, b) ==
    IF a.neg # b.neg THEN a.neg /\ ~(a.m = 0 /\ b.m = 0)
    ELSE IF a.neg THEN MagLt(b, a) ELSE MagLt(a, b)

\* max(a, b) of Python: a unless b is greater.
F32Max(a, b) == IF F32Lt(a, b) THEN b ELSE a

\* The shift that brings v below 2^24.
RECURSIVE ShiftTo24(_, _)
ShiftTo24(v, k) == IF v \div 2^k >= 2^24 THEN ShiftTo24(v, k + 1) ELSE k

\* A positive v below 2^23 shifted left until it is not: <<v, exponent>>.
RECURSIVE ShiftTo23(_, _)
ShiftTo23(v, e) == IF v < 2^23 THEN ShiftTo23(2 * v, e - 1) ELSE <<v, e>>

\* The integer n as a float32: astype(np.float32), or a Python number
\* that meets a float32 array.
F32FromInt(n) ==
    LET v == IF n < 0 THEN 0 - n ELSE n
    IN IF n = 0 THEN F32Zero
       ELSE IF v >= 2^24
       THEN LET k == ShiftTo24(v, 0)
            IN F32Round(n < 0, v \div 2^k,
                        RoundUp(v \div 2^k, 2 * (v % 2^k), 2^k), k)
       ELSE LET t == ShiftTo23(v, 0) IN F32(n < 0, t[1], t[2])

\* ----------------------------------------------------------------- library

\* Directories a library is scanned from: the default one and a directory
\* inside it.  A directory is the sequence of its path components.
MUSIC_DIR == <<"music">>
AltDir == <<"music", "alt">>
Dirs == {MUSIC_DIR, AltDir}

\* The audio files on disk, in the order of their paths: the directory of
\* each and what soundfile reports for it (f.subtype, f.frames).  A 16-bit
\* and a 24-bit PCM file and a floating-point file; the 24-bit one lies in
\* the inner directory.  A file is named by its place in this order, from 0.
Library ==
    << [dir |-> MUSIC_DIR, subtype |-> "PCM_16", frames |-> 2 * BUFFER_FRAMES],
       [dir |-> AltDir, subtype |-> "PCM_24",
        frames |-> BUFFER_FRAMES + (BUFFER_FRAMES \div 2)],
       [dir |-> MUSIC_DIR, subtype |-> "FLOAT",  frames |-> BUFFER_FRAMES] >>

\* Directory d is dir or lies below it.
IsPathPrefix(dir, d) ==
    /\ Len(dir) <= Len(d)
    /\ \A i \in 1 .. Len(dir) : dir[i] = d[i]

\* sorted(set(files)) of the recursive glob: the files at or below dir, in
\* path order.
RECURSIVE ScanFrom(_, _)
ScanFrom(dir, n) ==
    IF n > Len(Library) THEN << >>
    ELSE IF IsPathPrefix(dir, Library[n].dir)
         THEN <<n - 1>> \o ScanFrom(dir, n + 1)
         ELSE ScanFrom(dir, n + 1)

\* TrackInfo(track_id, path)
TrackInfo(track_id, file) == [id |-> track_id, path |-> file]

\* _scan_library: [TrackInfo(i, f) for i, f in enumerate(files)].
ScanLibrary(dir) ==
    LET files == ScanFrom(dir, 1)
    IN [i \in 1 .. Len(files) |-> TrackInfo(i - 1, files[i])]

\* What a scan of each directory finds.
Scans == [dir \in Dirs |-> ScanLibrary(dir)]

\* Track ids of the default directory's library.
TrackIds == 0 .. (Len(Scans[MUSIC_DIR]) - 1)
\* The ids a caller may pass to play(): the library's and one unknown id.
PlayIds == 0 .. Len(Library)

\* The sample encoding soundfile reports for each file (f.subtype).
TrackSubtype(t) == Library[t + 1].subtype

\* f.frames of each file.
TrackFrames(t) == Library[t + 1].frames

\* TrackInfo.duration (frames / samplerate), in frame periods.
TrackDuration(t) == TrackFrames(t)

\* Device identifiers, as character sequences so that startswith is computed.
DevHw == <<"h", "w", ":", "0", ",", "0">>
DevPlug == <<"p", "l", "u", "g", "h", "w", ":", "0", ",", "0">>
DevDefault == <<"d", "e", "f", "a", "u", "l", "t">>
Devices == {DevHw, DevPlug, DevDefault}
\* The default device of the constructor.
ALSA_CARD == DevHw

\* Device ids handed to the classifier: the listed ones, a second card, the
\* empty id (a missing id is falsy like it), the bare prefix, ids that stop
\* short of the prefix, contain it later, or spell it in capitals.
ClassifierDevices ==
    {DevHw, DevPlug, DevDefault,
     <<"h", "w", ":", "1", ",", "0">>,
     << >>,
     <<"h", "w", ":">>,
     <<"h", "w">>,
     <<"h", "w", "0">>,
     <<"H", "W", ":", "0", ",", "0">>,
     <<"x", "h", "w", ":", "0">>}

\* Encoding tags soundfile can report (f.subtype), and two that differ from a
\* supported tag only in case or by being empty.
Subtypes ==
    {"PCM_16", "PCM_24", "PCM_32", "PCM_S8", "PCM_U8", "FLOAT", "DOUBLE",
     "ALAC_16", "VORBIS", "pcm_16", ""}

\* Arguments the caller passes to seek(), in frame periods.
SeekInputs == {0 - BUFFER_FRAMES, BUFFER_FRAMES, 3 * BUFFER_FRAMES}

\* -------------------------------------------------------------------- state

VARIABLES
    alsa_card,          \* self.alsa_card
    music_dir,          \* self.music_dir
    tracks,             \* self.tracks, as the last scan left it
    config,             \* the configuration file: None when there is none,
                        \* Some([alsa_card, music_dir]) (an empty value reads
                        \* as a missing key), or CutShort
    current_track,      \* self.current_track: None or Some(TrackInfo)
    state,              \* self._state
    position,           \* self._position
    duration,           \* self._duration
    seek_to_seconds,    \* self._seek_to_seconds: None or Some(target)
    bitperfect,         \* self._bitperfect
    bitperfect_reason,  \* self._bitperfect_reason
    cur,                \* the Event pair self._stop_event/_pause_event refer to
    stop_set,           \* heap of stop Events: index -> is_set()
    pause_set,          \* heap of pause Events: index -> is_set()
    nplays,             \* playback threads started so far
    ctl,                \* position of the control-path caller
    pc,                 \* per loop: position in _playback_loop
    path,               \* per loop: the track whose path it was given
    ev,                 \* per loop: the Event pair it was given
    attempt,            \* per loop: `attempt` while the open loop runs (the name
                        \* is read nowhere after the loop), 0 outside it
    pcm,                \* per loop: pcm is not None (device handle open)
    pcm_device,         \* per loop: the device id the handle was opened on
    device_arg,         \* per loop: the device argument evaluated for
                        \* alsaaudio.PCM(...), while that call runs
    alsa_device_arg,    \* per loop: the alsa_device argument evaluated for
                        \* _set_bitperfect_state and not yet stored
    cursor,             \* per loop: f.tell()
    seek_secs,          \* per loop: local seek_secs
    late_writes,        \* history: blocks written while the loop's stop flag was set
    scen,               \* history: shape of the call sequence so far: "fresh", then
                        \* <<"A", a>> after play(a), <<"AB", a, b>> after play(b # a),
                        \* <<"A_dev", a, d>> after set_output_device(d) on the idle
                        \* engine, <<"A_dev_B", a, d, b>> after the play(b) that
                        \* follows; <<"other">> after any other call
    snap,               \* history: what pause() saw, then what the loop saw when suspending
    cause,              \* history, per loop: why it left the streaming path
    pend,               \* history: the last seek() of the running stream and the reads since
    unit,               \* history: the last direct call of the classifier, the mapper
                        \* or the analyzer
    lk,                 \* lock-level view: holders of _lock and _seek_lock (<<"free">>,
                        \* <<"ctl">> or <<"loop", s>>), each
                        \* loop's statement and the control call in progress
    viz,                \* the analyzer: rolling buffer, smoothed and peak values
    emits               \* history, per loop: how the emit of the block in hand went
                        \* ("none" once the block is written or the write failed)
VARIABLE
    sk                  \* history of the pending-seek slot: live, the seek targets
                        \* recorded, neither replaced in the slot nor cleared by
                        \* play(), and not yet applied to a decoder; first, what
                        \* the current stream's first read is to be measured
                        \* against: <<"carried", t>> when play() found target t
                        \* pending and no seek() came since, <<"after", t>> when
                        \* the last seek() came before the stream's initial seek
                        \* check; None once the first block is read
VARIABLE
    blocks              \* per loop: data, the block of the last read (as <<first
                        \* frame, length>>), and the history of the blocks read
                        \* and written since the decoder was last positioned

configVars == <<alsa_card, music_dir, tracks, config>>
engineVars == <<configVars, current_track, state, position, duration,
                seek_to_seconds, bitperfect, bitperfect_reason>>
eventVars == <<cur, stop_set, pause_set>>
loopVars ==
    <<pc, path, ev, attempt, pcm, pcm_device, device_arg, alsa_device_arg, cursor, seek_secs>>
histVars == <<late_writes, scen, snap, cause, pend, unit, sk>>
vars == <<engineVars, eventVars, nplays, ctl, loopVars, histVars, lk, viz, emits, blocks>>

Sessions == 1 .. MaxPlays
EventIds == 0 .. MaxPlays

\* Loops whose thread has been started.
Started == 1 .. nplays
\* Loops that have been started and have not finished.
Alive == {s \in Started : pc[s] # "done"}

\* Event objects still referenced: by the engine (c) or by a live loop.  The
\* others are unreachable and are dropped from the heap (shown as clear).
Reachable(flags, c, pcs, evs) ==
    [e \in EventIds |->
        IF e = c \/ (\E s \in Sessions : pcs[s] \notin {"new", "done"} /\ evs[s] = e)
        THEN flags[e] ELSE FALSE]

Bands == 1 .. bands

\* The float32 sample 0.0.
Zero == F32Zero

\* A loop that has read nothing since its decoder was positioned.
NoBlocks == [data |-> None, read |-> << >>, written |-> << >>]

\* VisualizerWindow.__init__: a buffer of fft_size zeros, nothing filled,
\* every band at -200 dB with peak time 0, the A-weighting off, the range
\* from 20 Hz to 20 kHz.
VizInit ==
    [ buffer |-> [i \in 1 .. fft_size |-> Zero],
      buffer_fill |-> 0,
      pushed |-> << >>,
      a_weight |-> FALSE,
      min_freq |-> 20,
      max_freq |-> 20000,
      smoothing |-> smoothing_default,
      peak_hold |-> peak_hold_seconds,
      smoothed |-> [b \in Bands |-> F32FromInt(0 - 200)],
      latest_db |-> [b \in Bands |-> F32FromInt(0 - 200)],
      peak_values |-> [b \in Bands |-> F32FromInt(0 - 200)],
      peak_times |-> [b \in Bands |-> 0],
      now |-> StartClock,
      analyses |-> 0 ]

\* A configuration file that was opened for writing and not written to its
\* end: empty or partial text, which json.load cannot read.
CutShort == <<"cut", "short">>

\* The configuration files an engine is constructed on: none, one cut
\* short, or one whose
\* keys are each missing (the empty value) or set to another value than the
\* constructor's default.
ConfigFiles ==
    {None, CutShort} \cup
    {Some([alsa_card |-> a, music_dir |-> m]) :
        a \in {<< >>, DevPlug}, m \in {<< >>, AltDir}}

\* _load_config: a value of the file replaces the constructor's when it is
\* truthy; a file that cannot be read leaves the constructor's values.
LoadConfig(cfg, key, default) ==
    IF cfg \notin {None, CutShort} /\ cfg[1][key] # << >> THEN cfg[1][key] ELSE default

\* AudioEngine.__init__, on any configuration file.
Init ==
    /\ config \in ConfigFiles
    /\ alsa_card = LoadConfig(config, "alsa_card", ALSA_CARD)
    /\ music_dir = LoadConfig(config, "music_dir", MUSIC_DIR)
    /\ tracks = ScanLibrary(music_dir)
    /\ current_track = None
    /\ state = IDLE
    /\ position = 0
    /\ duration = 0
    /\ seek_to_seconds = None
    /\ bitperfect = FALSE
    /\ bitperfect_reason = Text("Idle")
    /\ cur = 0
    /\ stop_set = [e \in EventIds |-> FALSE]
    /\ pause_set = [e \in EventIds |-> FALSE]
    /\ nplays = 0
    /\ ctl = <<"idle">>
    /\ pc = [s \in Sessions |-> "new"]
    /\ path = [s \in Sessions |-> 0]
    /\ ev = [s \in Sessions |-> 0]
    /\ attempt = [s \in Sessions |-> 0]
    /\ pcm = [s \in Sessions |-> FALSE]
    /\ pcm_device = [s \in Sessions |-> None]
    /\ device_arg = [s \in Sessions |-> None]
    /\ alsa_device_arg = [s \in Sessions |-> None]
    /\ cursor = [s \in Sessions |-> 0]
    /\ seek_secs = [s \in Sessions |-> None]
    /\ late_writes = [s \in Sessions |-> 0]
    /\ scen = <<"fresh">>
    /\ snap = None
    /\ cause = [s \in Sessions |-> "running"]
    /\ pend = None
    /\ unit = <<"none">>
    /\ lk = [lock |-> <<"free">>, seek_lock |-> <<"free">>,
             at |-> [s \in Sessions |-> "new"], call |-> << >>]
    /\ viz = VizInit
    /\ emits = [s \in Sessions |-> "none"]
    /\ blocks = [s \in Sessions |-> NoBlocks]
    /\ sk = [live |-> 0, first |-> None]

\* The engine constructed with no configuration file.
InitDefaults == Init /\ config = None


\* --------------------------------------------------------- pure operations

\* str.startswith on character sequences.
StartsWith(str, prefix) ==
    /\ Len(str) >= Len(prefix)
    /\ \A i \in 1 .. Len(prefix) : str[i] = prefix[i]

HwPrefix == <<"h", "w", ":">>
IntegerSubtypes == {"PCM_16", "PCM_24", "PCM_32"}

\* A classifier that looks at the device only.
BitperfectStateDeviceOnly(alsa_device, file_subtype) ==
    IF alsa_device = << >> \/ ~StartsWith(alsa_device, HwPrefix)
    THEN [bitperfect |-> FALSE,
          reason |-> Text("Using non-hw ALSA device (likely mixed/resampled)")]
    ELSE [bitperfect |-> TRUE, reason |-> EmptyText]

\* A classifier that tests the encoding before the device.
BitperfectStateFormatFirst(alsa_device, file_subtype) ==
    IF file_subtype \notin IntegerSubtypes
    THEN [bitperfect |-> FALSE,
          reason |-> <<"Unsupported or non-integer subtype: ", file_subtype>>]
    ELSE IF alsa_device = << >> \/ ~StartsWith(alsa_device, HwPrefix)
    THEN [bitperfect |-> FALSE,
          reason |-> Text("Using non-hw ALSA device (likely mixed/resampled)")]
    ELSE [bitperfect |-> TRUE, reason |-> EmptyText]

\* _set_bitperfect_state: the verdict and the reason it stores.
BitperfectState(alsa_device, file_subtype) ==
    IF alsa_device = << >> \/ ~StartsWith(alsa_device, HwPrefix)
    THEN [bitperfect |-> FALSE,
          reason |-> Text("Using non-hw ALSA device (likely mixed/resampled)")]
    ELSE IF file_subtype \notin IntegerSubtypes
    THEN [bitperfect |-> FALSE,
          reason |-> <<"Unsupported or non-integer subtype: ", file_subtype>>]
    ELSE [bitperfect |-> TRUE, reason |-> EmptyText]

\* A mapper that presents 24-bit samples in a 24-bit format.
map_subtype_packed_24(subtype) ==
    CASE subtype = "PCM_16" -> Some(<<"PCM_FORMAT_S16_LE", "int16">>)
      [] subtype = "PCM_24" -> Some(<<"PCM_FORMAT_S24_LE", "int32">>)
      [] subtype = "PCM_32" -> Some(<<"PCM_FORMAT_S32_LE", "int32">>)
      [] OTHER -> None

\* _map_subtype_to_alsa_format: the (format, dtype) pair, or None when it raises.
map_subtype_to_alsa_format(subtype) ==
    CASE subtype = "PCM_16" -> Some(<<"PCM_FORMAT_S16_LE", "int16">>)
      [] subtype = "PCM_24" -> Some(<<"PCM_FORMAT_S32_LE", "int32">>)
      [] subtype = "PCM_32" -> Some(<<"PCM_FORMAT_S32_LE", "int32">>)
      [] OTHER -> None

\* seek(): float(max(0.0, seconds)).
SeekTarget(seconds) == Max(0, seconds)

\* A play() that keeps the engine's long-lived Event pair instead of
\* allocating one.
ReusedEventPair == cur

\* The index of the Event pair a play() call allocates: a new object.
NewEventPair == nplays + 1

\* get_track_by_id: the track, or None.
get_track_by_id(id) ==
    IF \E i \in 1 .. Len(tracks) : tracks[i].id = id
    THEN Some(tracks[CHOOSE i \in 1 .. Len(tracks) : tracks[i].id = id])
    ELSE None

\* get_position(), get_duration(), status().
get_position == position
get_duration ==
    IF duration > 0 THEN duration
    ELSE IF current_track # None /\ TrackDuration(current_track[1].path) # 0
         THEN TrackDuration(current_track[1].path)
         ELSE 0
status ==
    [state |-> state,
     current_track_id |-> IF current_track # None THEN Some(current_track[1].id)
                          ELSE None,
     alsa_card |-> alsa_card,
     music_dir |-> music_dir,
     position |-> position,
     duration |-> duration,
     bitperfect |-> bitperfect,
     bitperfect_reason |-> bitperfect_reason]

\* ------------------------------------------------------------ control path

\* The caller is between calls (a raised play() has returned to it too).
CanCall == ctl[1] \in {"idle", "raised"}

\* _save_config, the file written: both values in it.
SaveConfig(card, dir) == Some([alsa_card |-> card, music_dir |-> dir])

\* set_music_dir(music_dir), its lock block: the directory stored.  The
\* scan and the save follow, each a step of its own.
set_music_dir(dir) ==
    /\ CanCall
    /\ music_dir' = dir
    /\ ctl' = <<"scan">>
    /\ scen' = <<"other">>
    /\ snap' = None
    /\ UNCHANGED <<alsa_card, tracks, config, current_track, state,
                   position, duration, seek_to_seconds, bitperfect,
                   bitperfect_reason, eventVars, nplays, loopVars, late_writes,
                   cause, pend, sk, unit, lk, viz, emits, blocks>>

\* set_music_dir, the _scan_library() call after the lock block.
scan_library ==
    /\ ctl[1] = "scan"
    /\ tracks' = ScanLibrary(music_dir)
    /\ ctl' = <<"save">>
    /\ UNCHANGED <<alsa_card, music_dir, config, current_track, state,
                   position, duration, seek_to_seconds, bitperfect,
                   bitperfect_reason, eventVars, nplays, loopVars, late_writes,
                   cause, pend, sk, unit, lk, viz, emits, blocks, scen, snap>>

\* set_output_device(device_id), its lock block: the device stored.  The
\* save follows as a step of its own.
set_output_device(d) ==
    /\ CanCall
    /\ alsa_card' = d
    /\ ctl' = <<"save">>
    /\ scen' = IF scen[1] = "A" /\ state = IDLE /\ Alive = {}
               THEN <<"A_dev", scen[2], d>>
               ELSE <<"other">>
    /\ snap' = None
    /\ UNCHANGED <<music_dir, tracks, config, current_track, state,
                   position, duration, seek_to_seconds, bitperfect,
                   bitperfect_reason, eventVars, nplays, loopVars, late_writes,
                   cause, pend, sk, unit, lk, viz, emits, blocks>>

\* _save_config() at the end of set_music_dir and set_output_device: the
\* file written with the values the engine holds at that moment.
save_config ==
    /\ ctl[1] = "save"
    /\ config' = SaveConfig(alsa_card, music_dir)
    /\ ctl' = <<"idle">>
    /\ UNCHANGED <<alsa_card, music_dir, tracks, current_track, state,
                   position, duration, seek_to_seconds, bitperfect,
                   bitperfect_reason, eventVars, nplays, loopVars, late_writes,
                   cause, pend, sk, unit, lk, viz, emits, blocks, scen, snap>>

\* _save_config() that raises, the exception swallowed: before the file is
\* open (os.makedirs, open) and the file stays as it was, or after
\* open(p, "w") has emptied it (json.dump) and the file is left cut short.
save_config_error ==
    /\ ctl[1] = "save"
    /\ config' \in {config, CutShort}
    /\ ctl' = <<"idle">>
    /\ UNCHANGED <<alsa_card, music_dir, tracks, current_track, state,
                   position, duration, seek_to_seconds, bitperfect,
                   bitperfect_reason, eventVars, nplays, loopVars, late_writes,
                   cause, pend, sk, unit, lk, viz, emits, blocks, scen, snap>>

\* The steps a configuration call takes after its lock block.
ConfigStep == scan_library \/ save_config \/ save_config_error

\* A play() that signals the running session before it looks the id up.
play_not_found_after_signal(id) ==
    /\ CanCall
    /\ get_track_by_id(id) = None
    /\ stop_set' = [stop_set EXCEPT ![cur] = TRUE]
    /\ ctl' = <<"raised">>
    /\ scen' = <<"other">>
    /\ snap' = None
    /\ UNCHANGED <<engineVars, cur, pause_set, nplays, loopVars, late_writes,
                   cause, pend, sk, unit, lk, viz, emits, blocks>>

\* play(track_id), unknown id: get_track_by_id returns None, ValueError raised.
play_not_found(id) ==
    /\ CanCall
    /\ get_track_by_id(id) = None
    /\ ctl' = <<"raised">>
    /\ scen' = <<"other">>
    /\ snap' = None
    /\ UNCHANGED <<engineVars, eventVars, nplays, loopVars, late_writes,
                   cause, pend, sk, unit, lk, viz, emits, blocks>>

\* play(track_id), known id, up to the lock: old_stop = self._stop_event;
\* old_stop.set().
play_signal(id) ==
    /\ CanCall
    /\ nplays < MaxPlays
    /\ get_track_by_id(id) # None
    /\ stop_set' = [stop_set EXCEPT ![cur] = TRUE]
    /\ ctl' = <<"play", id>>
    /\ scen' = IF scen[1] = "fresh" THEN <<"A", id>>
               ELSE IF scen[1] = "A" /\ id # scen[2] THEN <<"AB", scen[2], id>>
               ELSE IF scen[1] = "A_dev" THEN <<"A_dev_B", scen[2], scen[3], id>>
               ELSE <<"other">>
    /\ snap' = None
    /\ pend' = None
    /\ UNCHANGED sk
    /\ UNCHANGED <<engineVars, cur, pause_set, nplays, loopVars, late_writes,
                   cause, unit, lk, viz, emits, blocks>>

\* play(track_id), the `with self._lock:` block: fresh events installed, the
\* session fields reset, the playback thread started.
play_start ==
    /\ ctl[1] = "play"
    /\ LET track == get_track_by_id(ctl[2])[1]
           t == track.path
           e == NewEventPair
           s == nplays + 1
       IN /\ cur' = e
          /\ seek_to_seconds' = None
          /\ current_track' = Some(track)
          /\ state' = PLAYING
          /\ duration' = TrackDuration(t)
          /\ position' = 0
          /\ bitperfect' = FALSE
          /\ bitperfect_reason' = Text("Opening device")
          /\ nplays' = s
          /\ pc' = [pc EXCEPT ![s] = "start"]
          /\ path' = [path EXCEPT ![s] = t]
          /\ ev' = [ev EXCEPT ![s] = e]
    /\ stop_set' = Reachable(stop_set, cur', pc', ev')
    /\ pause_set' = Reachable(pause_set, cur', pc', ev')
    /\ ctl' = <<"idle">>
    /\ sk' = [live |-> IF seek_to_seconds = None THEN sk.live ELSE sk.live - 1,
              first |-> IF seek_to_seconds = None THEN None
                        ELSE <<"carried", seek_to_seconds[1]>>]
    /\ UNCHANGED <<configVars, attempt, pcm, pcm_device, device_arg, alsa_device_arg, cursor, seek_secs,
                   late_writes, scen, snap, cause, pend, unit, lk, viz, emits,
                   blocks>>

\* pause()
pause ==
    /\ CanCall
    /\ pause_set' = [pause_set EXCEPT ![cur] = TRUE]
    /\ state' = PAUSED
    /\ ctl' = <<"idle">>
    /\ scen' = <<"other">>
    /\ snap' = IF state = PLAYING /\ current_track # None /\ ~stop_set[cur]
                  /\ (\E s \in Sessions : pc[s] \notin {"new", "done"} /\ ev[s] = cur)
               THEN <<current_track>>
               ELSE None
    /\ UNCHANGED <<configVars, current_track, position, duration,
                   seek_to_seconds, bitperfect, bitperfect_reason, cur,
                   stop_set, nplays, loopVars, late_writes, cause, pend, sk, unit,
                   lk, viz, emits, blocks>>

\* resume()
resume ==
    /\ CanCall
    /\ pause_set' = [pause_set EXCEPT ![cur] = FALSE]
    /\ state' = PLAYING
    /\ ctl' = <<"idle">>
    /\ scen' = <<"other">>
    /\ snap' = None
    /\ UNCHANGED <<configVars, current_track, position, duration,
                   seek_to_seconds, bitperfect, bitperfect_reason, cur,
                   stop_set, nplays, loopVars, late_writes, cause, pend, sk, unit,
                   lk, viz, emits, blocks>>

\* A stop() that leaves the pause flag as it is.
stop_keeps_pause ==
    /\ CanCall
    /\ stop_set' = [stop_set EXCEPT ![cur] = TRUE]
    /\ state' = STOPPED
    /\ bitperfect' = FALSE
    /\ bitperfect_reason' = Text("Stopped")
    /\ ctl' = <<"idle">>
    /\ scen' = <<"other">>
    /\ snap' = None
    /\ pend' = None
    /\ UNCHANGED sk
    /\ UNCHANGED <<configVars, current_track, position, duration,
                   seek_to_seconds, cur, pause_set, nplays, loopVars,
                   late_writes, cause, unit, lk, viz, emits, blocks>>

\* stop()
stop ==
    /\ CanCall
    /\ stop_set' = [stop_set EXCEPT ![cur] = TRUE]
    /\ pause_set' = [pause_set EXCEPT ![cur] = FALSE]
    /\ state' = STOPPED
    /\ bitperfect' = FALSE
    /\ bitperfect_reason' = Text("Stopped")
    /\ ctl' = <<"idle">>
    /\ scen' = <<"other">>
    /\ snap' = None
    /\ pend' = None
    /\ UNCHANGED sk
    /\ UNCHANGED <<configVars, current_track, position, duration,
                   seek_to_seconds, cur, nplays, loopVars, late_writes, cause, unit,
                   lk, viz, emits, blocks>>

\* Loop s has not yet run the seek check that precedes its main loop.
BeforeInitialSeek(s) ==
    pc[s] \in {"start", "open", "open_args", "open_call", "bitperfect", "bitperfect_store",
               "initial_seek"}

\* seek(seconds), the `with self._seek_lock:` block.
seek_record(seconds) ==
    /\ CanCall
    /\ seek_to_seconds' = Some(SeekTarget(seconds))
    /\ ctl' = <<"seek", seconds>>
    /\ scen' = <<"other">>
    /\ snap' = None
    /\ pend' = IF state = PLAYING /\ ~stop_set[cur]
                  /\ (\E s \in Sessions : pc[s] \notin {"new", "done"} /\ ev[s] = cur)
               THEN <<seconds, 0>>
               ELSE None
    /\ sk' = [live |-> IF seek_to_seconds = None THEN sk.live + 1 ELSE sk.live,
              first |-> IF \E s \in Sessions : ev[s] = cur /\ BeforeInitialSeek(s)
                        THEN <<"after", SeekTarget(seconds)>>
                        ELSE None]
    /\ UNCHANGED <<configVars, current_track, state, position, duration,
                   bitperfect, bitperfect_reason, eventVars, nplays, loopVars,
                   late_writes, cause, unit, lk, viz, emits, blocks>>

\* seek(seconds), the `with self._lock:` block.
seek_publish ==
    /\ ctl[1] = "seek"
    /\ position' = SeekTarget(ctl[2])
    /\ ctl' = <<"idle">>
    /\ UNCHANGED <<configVars, current_track, state, duration, seek_to_seconds,
                   bitperfect, bitperfect_reason, eventVars, nplays, loopVars,
                   histVars, lk, viz, emits, blocks>>

\* ------------------------------------------- classifier and mapper, directly

\* _set_bitperfect_state(file_subtype=..., alsa_device=...) called on the
\* engine: the verdict and the reason are stored under the lock.
set_bitperfect_state(file_subtype, alsa_device) ==
    /\ LET r == BitperfectState(alsa_device, file_subtype)
       IN /\ bitperfect' = r.bitperfect
          /\ bitperfect_reason' = r.reason
    /\ unit' = <<"classify", alsa_device, file_subtype>>
    /\ UNCHANGED <<configVars, current_track, state, position, duration,
                   seek_to_seconds, eventVars, nplays, ctl, loopVars,
                   late_writes, scen, snap, cause, pend, sk, lk, viz, emits, blocks>>

\* _map_subtype_to_alsa_format(subtype) called on the engine: the pair it
\* returns, or None for the ValueError it raises.
map_subtype(subtype) ==
    /\ unit' = <<"map", subtype, map_subtype_to_alsa_format(subtype)>>
    /\ UNCHANGED <<engineVars, eventVars, nplays, ctl, loopVars,
                   late_writes, scen, snap, cause, pend, sk, lk, viz, emits, blocks>>


\* --------------------------------------------------- _playback_loop, by step

\* What a loop step leaves alone besides the fields it names.
LoopFrame == UNCHANGED <<configVars, eventVars, nplays, ctl, path, ev, scen>>
\* The same for the step that ends the thread.
ExitFrame == UNCHANGED <<configVars, cur, nplays, ctl, scen>>

\* sf.SoundFile(path) opened; duration published under the lock; the subtype
\* mapped (raises for an unsupported one).
loop_open_file(s) ==
    /\ pc[s] = "start"
    /\ duration' = IF TrackFrames(path[s]) # 0 THEN TrackFrames(path[s]) ELSE duration
    /\ IF map_subtype_to_alsa_format(TrackSubtype(path[s])) # None
       THEN /\ pc' = [pc EXCEPT ![s] = "open"]
            /\ attempt' = [attempt EXCEPT ![s] = 1]
       ELSE /\ pc' = [pc EXCEPT ![s] = "except"]
            /\ UNCHANGED attempt
    /\ cause' = IF map_subtype_to_alsa_format(TrackSubtype(path[s])) # None
                THEN cause ELSE [cause EXCEPT ![s] = "format"]
    /\ UNCHANGED <<current_track, state, position, seek_to_seconds,
                   bitperfect, bitperfect_reason, pcm, pcm_device, device_arg, alsa_device_arg, cursor,
                   seek_secs, late_writes, pend, sk, unit, snap, lk, viz, emits, blocks>>
    /\ LoopFrame

\* sf.SoundFile(path) raises (unreadable or undecodable file).
loop_open_file_error(s) ==
    /\ pc[s] = "start"
    /\ pc' = [pc EXCEPT ![s] = "except"]
    /\ cause' = [cause EXCEPT ![s] = "decode"]
    /\ UNCHANGED <<engineVars, attempt, pcm, pcm_device, device_arg, alsa_device_arg, cursor, seek_secs,
                   late_writes, pend, sk, unit, snap, lk, viz, emits, blocks>>
    /\ LoopFrame

\* One iteration of the open loop whose stop check fires: RuntimeError.
loop_open_stopped(s) ==
    /\ pc[s] = "open"
    /\ stop_set[ev[s]]
    /\ pc' = [pc EXCEPT ![s] = "except"]
    /\ attempt' = [attempt EXCEPT ![s] = 0]
    /\ cause' = [cause EXCEPT ![s] = "stop"]
    /\ UNCHANGED <<engineVars, pcm, pcm_device, device_arg, alsa_device_arg, cursor, seek_secs,
                   late_writes, pend, sk, unit, snap, lk, viz, emits, blocks>>
    /\ LoopFrame

\* One iteration of the open loop whose stop check passes.
loop_open_try(s) ==
    /\ pc[s] = "open"
    /\ ~stop_set[ev[s]]
    /\ pc' = [pc EXCEPT ![s] = "open_args"]
    /\ UNCHANGED <<engineVars, attempt, pcm, pcm_device, device_arg, alsa_device_arg, cursor, seek_secs,
                   late_writes, cause, pend, sk, unit, snap, lk, viz, emits, blocks>>
    /\ LoopFrame

\* _open_alsa_device up to the call of alsaaudio.PCM(...): its device
\* argument is self.alsa_card, read without the lock; the call then blocks.
loop_open_call(s) ==
    /\ pc[s] = "open_args"
    /\ device_arg' = [device_arg EXCEPT ![s] = Some(alsa_card)]
    /\ pc' = [pc EXCEPT ![s] = "open_call"]
    /\ UNCHANGED <<engineVars, attempt, pcm, pcm_device, alsa_device_arg, cursor, seek_secs,
                   late_writes, cause, pend, sk, unit, snap, lk, viz, emits, blocks>>
    /\ LoopFrame

\* One iteration of the open loop: alsaaudio.PCM(...) returns a handle on
\* the device it was called with, as it can at any call, whatever handles
\* are open.
loop_open_ok(s) ==
    /\ pc[s] = "open_call"
    /\ pcm' = [pcm EXCEPT ![s] = TRUE]
    /\ pcm_device' = [pcm_device EXCEPT ![s] = device_arg[s]]
    /\ device_arg' = [device_arg EXCEPT ![s] = None]
    /\ pc' = [pc EXCEPT ![s] = "bitperfect"]
    /\ attempt' = [attempt EXCEPT ![s] = 0]
    /\ UNCHANGED <<engineVars, alsa_device_arg, cursor, seek_secs, late_writes, cause,
                   pend, sk, unit, snap, lk, viz, emits, blocks>>
    /\ LoopFrame

\* One iteration of the open loop: _open_alsa_device raises, as it can at
\* any call (device busy, or any other failure); back-off sleep; the for
\* loop ends after attempt max_retries.
loop_open_fail(s) ==
    /\ pc[s] = "open_call"
    /\ IF attempt[s] >= max_retries
       THEN /\ pc' = [pc EXCEPT ![s] = "nopcm"]
            /\ attempt' = [attempt EXCEPT ![s] = 0]
       ELSE /\ attempt' = [attempt EXCEPT ![s] = attempt[s] + 1]
            /\ pc' = [pc EXCEPT ![s] = "open"]
    /\ device_arg' = [device_arg EXCEPT ![s] = None]
    /\ UNCHANGED <<engineVars, pcm, pcm_device, alsa_device_arg, cursor, seek_secs,
                   late_writes, cause, pend, sk, unit, snap, lk, viz, emits, blocks>>
    /\ LoopFrame

\* The calls that raise because the device is busy: a handle is open.
loop_open_busy(s) == (\E t \in Sessions : pcm[t]) /\ loop_open_fail(s)

\* `if pcm is None:` after the open loop: reason published, RuntimeError.
loop_no_pcm(s) ==
    /\ pc[s] = "nopcm"
    /\ bitperfect' = FALSE
    /\ bitperfect_reason' = Text("Unable to open ALSA device")
    /\ pc' = [pc EXCEPT ![s] = "except"]
    /\ cause' = [cause EXCEPT ![s] = "open"]
    /\ UNCHANGED <<current_track, state, position, duration, seek_to_seconds,
                   attempt, pcm, pcm_device, device_arg, alsa_device_arg, cursor, seek_secs, late_writes, pend, sk, unit, snap,
                   lk, viz, emits, blocks>>
    /\ LoopFrame

\* The arguments of _set_bitperfect_state evaluated: alsa_device is
\* self.alsa_card, read without the lock.
loop_bitperfect_args(s) ==
    /\ pc[s] = "bitperfect"
    /\ alsa_device_arg' = [alsa_device_arg EXCEPT ![s] = Some(alsa_card)]
    /\ pc' = [pc EXCEPT ![s] = "bitperfect_store"]
    /\ UNCHANGED <<engineVars, attempt, pcm, pcm_device, device_arg, cursor, seek_secs,
                   late_writes, cause, pend, sk, unit, snap, lk, viz, emits, blocks>>
    /\ LoopFrame

\* A loop that classifies against the constructor's default device.
loop_set_bitperfect_default_device(s) ==
    /\ pc[s] = "bitperfect_store"
    /\ LET r == BitperfectState(ALSA_CARD, TrackSubtype(path[s]))
       IN /\ bitperfect' = r.bitperfect
          /\ bitperfect_reason' = r.reason
    /\ alsa_device_arg' = [alsa_device_arg EXCEPT ![s] = None]
    /\ pc' = [pc EXCEPT ![s] = "initial_seek"]
    /\ UNCHANGED <<current_track, state, position, duration, seek_to_seconds,
                   attempt, pcm, pcm_device, device_arg, cursor, seek_secs, late_writes,
                   cause, pend, sk, unit, snap, lk, viz, emits, blocks>>
    /\ LoopFrame

\* _set_bitperfect_state(file_subtype=subtype, alsa_device=...) after the
\* open: the verdict on the arguments stored under the lock.  The call does
\* not raise on a device id and a subtype that are strings.
loop_set_bitperfect(s) ==
    /\ pc[s] = "bitperfect_store"
    /\ LET r == BitperfectState(alsa_device_arg[s][1], TrackSubtype(path[s]))
       IN /\ bitperfect' = r.bitperfect
          /\ bitperfect_reason' = r.reason
    /\ alsa_device_arg' = [alsa_device_arg EXCEPT ![s] = None]
    /\ pc' = [pc EXCEPT ![s] = "initial_seek"]
    /\ UNCHANGED <<current_track, state, position, duration, seek_to_seconds,
                   attempt, pcm, pcm_device, device_arg, cursor, seek_secs, late_writes,
                   cause, pend, sk, unit, snap, lk, viz, emits, blocks>>
    /\ LoopFrame

\* A loop that reads the pending seek and leaves it in the slot.
loop_take_seek_keeps(s, at, apply, skip) ==
    /\ pc[s] = at
    /\ seek_secs' = [seek_secs EXCEPT ![s] = seek_to_seconds]
    /\ pc' = [pc EXCEPT ![s] = IF seek_to_seconds # None THEN apply ELSE skip]
    /\ UNCHANGED <<current_track, state, position, duration, seek_to_seconds,
                   bitperfect, bitperfect_reason, attempt, pcm, pcm_device, device_arg, alsa_device_arg, cursor,
                   late_writes, cause, pend, sk, unit, snap, lk, viz, emits, blocks>>
    /\ LoopFrame

\* `with self._seek_lock:` read-and-clear of the pending seek, before the main
\* loop (at = "initial_seek") and inside it (at = "seek").
loop_take_seek(s, at, apply, skip) ==
    /\ pc[s] = at
    /\ seek_secs' = [seek_secs EXCEPT ![s] = seek_to_seconds]
    /\ seek_to_seconds' = None
    /\ pc' = [pc EXCEPT ![s] = IF seek_to_seconds # None THEN apply ELSE skip]
    /\ UNCHANGED <<current_track, state, position, duration, bitperfect,
                   bitperfect_reason, attempt, pcm, pcm_device, device_arg, alsa_device_arg, cursor,
                   late_writes, cause, pend, sk, unit, snap, lk, viz, emits, blocks>>
    /\ LoopFrame

\* Initial seek: max(0, min(target_frame, frames_total or target_frame)).
InitialSeekFrame(target, frames_total) ==
    Max(0, Min(target, IF frames_total # 0 THEN frames_total ELSE target))

\* Seek in the main loop: clamped to frames_total - 1 when frames_total is known.
LoopSeekFrame(target, frames_total) ==
    IF frames_total # 0 THEN Max(0, Min(target, frames_total - 1)) ELSE target

\* f.seek(target_frame) and the position published under the lock.
loop_apply_seek(s, at, frame, next) ==
    /\ pc[s] = at
    /\ cursor' = [cursor EXCEPT ![s] = frame]
    /\ position' = frame
    /\ pc' = [pc EXCEPT ![s] = next]
    /\ blocks' = [blocks EXCEPT ![s] = NoBlocks]
    /\ sk' = [sk EXCEPT !.live = @ - 1]
    /\ UNCHANGED <<current_track, state, duration, seek_to_seconds,
                   bitperfect, bitperfect_reason, attempt, pcm, pcm_device, device_arg, alsa_device_arg,
                   seek_secs, late_writes, cause, pend, unit, snap, lk, viz, emits>>
    /\ LoopFrame

\* f.seek(target_frame) raises: the exception is printed; the decoder stays
\* where it was and no position is published.
loop_apply_seek_error(s, at, next) ==
    /\ pc[s] = at
    /\ pc' = [pc EXCEPT ![s] = next]
    /\ sk' = [sk EXCEPT !.live = @ - 1]
    /\ UNCHANGED <<engineVars, attempt, pcm, pcm_device, device_arg, alsa_device_arg, cursor,
                   seek_secs, late_writes, cause, pend, unit, snap, lk, viz,
                   emits, blocks>>
    /\ LoopFrame

loop_initial_seek_take(s) == loop_take_seek(s, "initial_seek", "initial_seek_apply", "while")

loop_initial_seek_error(s) == loop_apply_seek_error(s, "initial_seek_apply", "while")

loop_initial_seek_apply(s) ==
    loop_apply_seek(s, "initial_seek_apply",
                    InitialSeekFrame(seek_secs[s][1], TrackFrames(path[s])), "while")

\* A loop condition that tests the engine's current stop Event instead of the
\* one the thread was given.
loop_while_shared_flag(s) ==
    /\ pc[s] = "while"
    /\ pc' = [pc EXCEPT ![s] = IF stop_set[cur] THEN "finally" ELSE "pause_check"]
    /\ cause' = IF stop_set[cur] THEN [cause EXCEPT ![s] = "stop"] ELSE cause
    /\ UNCHANGED <<engineVars, attempt, pcm, pcm_device, device_arg, alsa_device_arg, cursor, seek_secs,
                   late_writes, pend, sk, unit, snap, lk, viz, emits, blocks>>
    /\ LoopFrame

\* `while not stop_event.is_set():`
loop_while(s) ==
    /\ pc[s] = "while"
    /\ pc' = [pc EXCEPT ![s] = IF stop_set[ev[s]] THEN "finally" ELSE "pause_check"]
    /\ cause' = IF stop_set[ev[s]] THEN [cause EXCEPT ![s] = "stop"] ELSE cause
    /\ UNCHANGED <<engineVars, attempt, pcm, pcm_device, device_arg, alsa_device_arg, cursor, seek_secs,
                   late_writes, pend, sk, unit, snap, lk, viz, emits, blocks>>
    /\ LoopFrame

\* A pause poll that sleeps again without going back to the stop test.
loop_pause_check_spins(s) ==
    /\ pc[s] = "pause_check"
    /\ pc' = [pc EXCEPT ![s] = IF pause_set[ev[s]] THEN "pause_check" ELSE "seek"]
    /\ snap' = IF pause_set[ev[s]] /\ ev[s] = cur /\ Len(snap) = 1
               THEN <<snap[1], position>>
               ELSE snap
    /\ UNCHANGED <<engineVars, attempt, pcm, pcm_device, device_arg, alsa_device_arg, cursor, seek_secs,
                   late_writes, cause, pend, sk, unit, lk, viz, emits, blocks>>
    /\ LoopFrame

\* A loop that does not look at the pause flag.
loop_pause_check_ignored(s) ==
    /\ pc[s] = "pause_check"
    /\ pc' = [pc EXCEPT ![s] = "seek"]
    /\ snap' = IF pause_set[ev[s]] /\ ev[s] = cur /\ Len(snap) = 1
               THEN <<snap[1], position>>
               ELSE snap
    /\ UNCHANGED <<engineVars, attempt, pcm, pcm_device, device_arg, alsa_device_arg, cursor, seek_secs,
                   late_writes, cause, pend, sk, unit, lk, viz, emits, blocks>>
    /\ LoopFrame

\* `if pause_event.is_set(): time.sleep(0.05); continue`
loop_pause_check(s) ==
    /\ pc[s] = "pause_check"
    /\ pc' = [pc EXCEPT ![s] = IF pause_set[ev[s]] THEN "while" ELSE "seek"]
    /\ snap' = IF pause_set[ev[s]] /\ ev[s] = cur /\ Len(snap) = 1
               THEN <<snap[1], position>>
               ELSE snap
    /\ UNCHANGED <<engineVars, attempt, pcm, pcm_device, device_arg, alsa_device_arg, cursor, seek_secs,
                   late_writes, cause, pend, sk, unit, lk, viz, emits, blocks>>
    /\ LoopFrame

loop_seek_take(s) == loop_take_seek(s, "seek", "seek_apply", "read")

loop_seek_apply(s) ==
    loop_apply_seek(s, "seek_apply",
                    LoopSeekFrame(seek_secs[s][1], TrackFrames(path[s])), "read")

loop_seek_error(s) == loop_apply_seek_error(s, "seek_apply", "read")

\* The frames a seek to `seconds` can put the cursor on: the clamp of the main
\* loop and the clamp of the initial seek.
SeekFrames(seconds, frames_total) ==
    {LoopSeekFrame(SeekTarget(seconds), frames_total),
     InitialSeekFrame(SeekTarget(seconds), frames_total)}

\* Frames f.read(frames=BUFFER_FRAMES) returns at the cursor.
ReadLen(s) == Max(0, Min(BUFFER_FRAMES, TrackFrames(path[s]) - cursor[s]))

\* data = f.read(...); `if len(data) == 0: break`
loop_read(s) ==
    /\ pc[s] = "read"
    /\ cursor' = [cursor EXCEPT ![s] = cursor[s] + ReadLen(s)]
    /\ pc' = [pc EXCEPT ![s] = IF ReadLen(s) = 0 THEN "finally" ELSE "emit"]
    /\ cause' = IF ReadLen(s) = 0 THEN [cause EXCEPT ![s] = "eof"] ELSE cause
    /\ pend' = IF pend = None \/ ev[s] # cur THEN pend
               ELSE IF cursor[s] \in SeekFrames(pend[1], TrackFrames(path[s])) THEN None
               ELSE <<pend[1], Min(pend[2] + 1, 2)>>
    /\ sk' = IF ev[s] = cur THEN [sk EXCEPT !.first = None] ELSE sk
    /\ blocks' = IF ReadLen(s) = 0 THEN blocks
                 ELSE [blocks EXCEPT ![s].data = Some(<<cursor[s], ReadLen(s)>>),
                                     ![s].read = Append(@, <<cursor[s], ReadLen(s)>>)]
    /\ UNCHANGED <<engineVars, attempt, pcm, pcm_device, device_arg, alsa_device_arg, seek_secs,
                   late_writes, unit, snap, lk, viz, emits>>
    /\ LoopFrame

\* f.read(...) raises: the exception leaves the `with` block for the
\* `except Exception:` handler.
loop_read_error(s) ==
    /\ pc[s] = "read"
    /\ pc' = [pc EXCEPT ![s] = "except"]
    /\ cause' = [cause EXCEPT ![s] = "read"]
    /\ UNCHANGED <<engineVars, attempt, pcm, pcm_device, device_arg, alsa_device_arg, cursor,
                   seek_secs, late_writes, pend, sk, unit, snap, lk, viz, emits,
                   blocks>>
    /\ LoopFrame

\* self.pcm_chunk.emit(np.copy(data)) returns.
loop_emit(s) ==
    /\ pc[s] = "emit"
    /\ pc' = [pc EXCEPT ![s] = "write"]
    /\ emits' = [emits EXCEPT ![s] = "ok"]
    /\ UNCHANGED <<engineVars, attempt, pcm, pcm_device, device_arg, alsa_device_arg, cursor, seek_secs,
                   late_writes, cause, pend, sk, unit, snap, lk, viz, blocks>>
    /\ LoopFrame

\* A loop in which an exception of the emit is not caught.
loop_emit_fail_aborts(s) ==
    /\ pc[s] = "emit"
    /\ pc' = [pc EXCEPT ![s] = "except"]
    /\ emits' = [emits EXCEPT ![s] = "failed"]
    /\ UNCHANGED <<engineVars, attempt, pcm, pcm_device, device_arg, alsa_device_arg, cursor, seek_secs,
                   late_writes, cause, pend, sk, unit, snap, lk, viz, blocks>>
    /\ LoopFrame

\* np.copy or self.pcm_chunk.emit raises; the except clause swallows it.
loop_emit_fail(s) ==
    /\ pc[s] = "emit"
    /\ pc' = [pc EXCEPT ![s] = "write"]
    /\ emits' = [emits EXCEPT ![s] = "failed"]
    /\ UNCHANGED <<engineVars, attempt, pcm, pcm_device, device_arg, alsa_device_arg, cursor, seek_secs,
                   late_writes, cause, pend, sk, unit, snap, lk, viz, blocks>>
    /\ LoopFrame

\* pcm.write(...) succeeds.
loop_write_ok(s) ==
    /\ pc[s] = "write"
    /\ pc' = [pc EXCEPT ![s] = "position"]
    /\ late_writes' = [late_writes EXCEPT
                         ![s] = IF stop_set[ev[s]] THEN late_writes[s] + 1
                                ELSE late_writes[s]]
    /\ blocks' = [blocks EXCEPT ![s].written = Append(@, blocks[s].data[1])]
    /\ UNCHANGED <<engineVars, attempt, pcm, pcm_device, device_arg, alsa_device_arg, cursor, seek_secs,
                   snap, cause, pend, sk, unit, lk, viz, emits>>
    /\ LoopFrame

\* A loop that goes on to the next block when a write raises.
loop_write_fail_continues(s) ==
    /\ pc[s] = "write"
    /\ pc' = [pc EXCEPT ![s] = "while"]
    /\ cause' = [cause EXCEPT ![s] = "write"]
    /\ emits' = [emits EXCEPT ![s] = "none"]
    /\ UNCHANGED <<engineVars, attempt, pcm, pcm_device, device_arg, alsa_device_arg, cursor, seek_secs,
                   late_writes, pend, sk, unit, snap, lk, viz, blocks>>
    /\ LoopFrame

\* pcm.write(...) raises: break.
loop_write_fail(s) ==
    /\ pc[s] = "write"
    /\ pc' = [pc EXCEPT ![s] = "finally"]
    /\ cause' = [cause EXCEPT ![s] = "write"]
    /\ emits' = [emits EXCEPT ![s] = "none"]
    /\ UNCHANGED <<engineVars, attempt, pcm, pcm_device, device_arg, alsa_device_arg, cursor, seek_secs,
                   late_writes, pend, sk, unit, snap, lk, viz, blocks>>
    /\ LoopFrame

\* self._position = f.tell() / samplerate, under the lock.
loop_position(s) ==
    /\ pc[s] = "position"
    /\ position' = cursor[s]
    /\ pc' = [pc EXCEPT ![s] = "while"]
    /\ emits' = [emits EXCEPT ![s] = "none"]
    /\ UNCHANGED <<current_track, state, duration, seek_to_seconds,
                   bitperfect, bitperfect_reason, attempt, pcm, pcm_device, device_arg, alsa_device_arg,
                   cursor, seek_secs, late_writes, cause, pend, sk, unit, snap,
                   lk, viz, blocks>>
    /\ LoopFrame

\* f.tell() raises inside the lock: the exception is passed over and the
\* position is not published.
loop_position_error(s) ==
    /\ pc[s] = "position"
    /\ pc' = [pc EXCEPT ![s] = "while"]
    /\ emits' = [emits EXCEPT ![s] = "none"]
    /\ UNCHANGED <<engineVars, attempt, pcm, pcm_device, device_arg, alsa_device_arg, cursor,
                   seek_secs, late_writes, cause, pend, sk, unit, snap, lk, viz,
                   blocks>>
    /\ LoopFrame

\* `except Exception:` handler, under the lock.
loop_except(s) ==
    /\ pc[s] = "except"
    /\ bitperfect' = FALSE
    /\ bitperfect_reason' = IF bitperfect_reason = EmptyText THEN Text("Playback error")
                            ELSE bitperfect_reason
    /\ pc' = [pc EXCEPT ![s] = "finally"]
    /\ UNCHANGED <<current_track, state, position, duration, seek_to_seconds,
                   attempt, pcm, pcm_device, device_arg, alsa_device_arg, cursor, seek_secs, late_writes,
                   cause, pend, sk, unit, snap, lk, viz, emits, blocks>>
    /\ LoopFrame

\* A finally block that leaves the handle open.
loop_skip_close(s) ==
    /\ pc[s] = "finally"
    /\ pc' = [pc EXCEPT ![s] = "exit"]
    /\ UNCHANGED <<engineVars, attempt, pcm, pcm_device, device_arg, alsa_device_arg, cursor, seek_secs,
                   late_writes, cause, pend, sk, unit, snap, lk, viz, emits, blocks>>
    /\ LoopFrame

\* `finally:` pcm.close() when the device was opened.
loop_close(s) ==
    /\ pc[s] = "finally"
    /\ pcm' = [pcm EXCEPT ![s] = FALSE]
    /\ pcm_device' = [pcm_device EXCEPT ![s] = None]
    /\ pc' = [pc EXCEPT ![s] = "exit"]
    /\ UNCHANGED <<engineVars, attempt, device_arg, alsa_device_arg, cursor, seek_secs, late_writes, cause,
                   pend, sk, unit, snap, lk, viz, emits, blocks>>
    /\ LoopFrame

\* An exit block that does not compare paths.
OwnsAnySession(s) == current_track # None

\* The test of the exit block: this loop's track is the current one.
OwnsSession(s) == current_track # None /\ current_track[1].path = path[s]

\* An exit block that returns to Idle and keeps the current track.
loop_exit_keeps_track(s) ==
    /\ pc[s] = "exit"
    /\ IF OwnsSession(s)
       THEN /\ state' = IF ~stop_set[ev[s]] THEN IDLE ELSE state
            /\ position' = 0
            /\ bitperfect' = FALSE
            /\ bitperfect_reason' = Text("Idle")
       ELSE UNCHANGED <<state, position, bitperfect, bitperfect_reason>>
    /\ pc' = [pc EXCEPT ![s] = "done"]
    /\ path' = [path EXCEPT ![s] = 0]
    /\ ev' = [ev EXCEPT ![s] = 0]
    /\ attempt' = [attempt EXCEPT ![s] = 0]
    /\ cursor' = [cursor EXCEPT ![s] = 0]
    /\ seek_secs' = [seek_secs EXCEPT ![s] = None]
    /\ late_writes' = [late_writes EXCEPT ![s] = 0]
    /\ cause' = [cause EXCEPT ![s] = "running"]
    /\ pend' = IF ev[s] = cur THEN None ELSE pend
    /\ sk' = IF ev[s] = cur THEN [sk EXCEPT !.first = None] ELSE sk
    /\ stop_set' = Reachable(stop_set, cur, pc', ev')
    /\ pause_set' = Reachable(pause_set, cur, pc', ev')
    /\ blocks' = [blocks EXCEPT ![s] = NoBlocks]
    /\ UNCHANGED <<current_track, duration, seek_to_seconds, pcm, pcm_device, device_arg, alsa_device_arg,
                   snap, unit, lk, viz, emits>>
    /\ ExitFrame

\* `finally:` the session fields cleared under the lock; the thread ends.
loop_exit(s) ==
    /\ pc[s] = "exit"
    /\ IF OwnsSession(s)
       THEN /\ state' = IF ~stop_set[ev[s]] THEN IDLE ELSE state
            /\ current_track' = None
            /\ position' = 0
            /\ bitperfect' = FALSE
            /\ bitperfect_reason' = Text("Idle")
       ELSE UNCHANGED <<state, current_track, position, bitperfect, bitperfect_reason>>
    /\ pc' = [pc EXCEPT ![s] = "done"]
    /\ path' = [path EXCEPT ![s] = 0]
    /\ ev' = [ev EXCEPT ![s] = 0]
    /\ attempt' = [attempt EXCEPT ![s] = 0]
    /\ cursor' = [cursor EXCEPT ![s] = 0]
    /\ seek_secs' = [seek_secs EXCEPT ![s] = None]
    /\ late_writes' = [late_writes EXCEPT ![s] = 0]
    /\ cause' = [cause EXCEPT ![s] = "running"]
    /\ pend' = IF ev[s] = cur THEN None ELSE pend
    /\ sk' = IF ev[s] = cur THEN [sk EXCEPT !.first = None] ELSE sk
    /\ stop_set' = Reachable(stop_set, cur, pc', ev')
    /\ pause_set' = Reachable(pause_set, cur, pc', ev')
    /\ blocks' = [blocks EXCEPT ![s] = NoBlocks]
    /\ UNCHANGED <<duration, seek_to_seconds, pcm, pcm_device, device_arg, alsa_device_arg, snap, unit, lk, viz, emits>>
    /\ ExitFrame

\* ------------------------------------------- the open retries, at full length

\* A back-off that does not grow.
wait_time_flat(k) == base_delay

\* wait_time = base_delay * (1 + (attempt // 20)), k the attempt number,
\* counted from 1
wait_time(k) == base_delay * (1 + (k \div 20))

RetryFrame ==
    UNCHANGED <<engineVars, eventVars, nplays, ctl, loopVars, late_writes,
                scen, snap, cause, pend, sk, lk, viz, emits, blocks>>

\* The for-loop of lines 475-484 on its own, all max_retries attempts of it:
\* unit is <<"retry", attempt, last wait, total wait>> at the head of an
\* iteration, attempt counted from 1, and <<"ended", ...>> when the range
\* is used up.
retry_begin ==
    /\ unit[1] \notin {"retry", "ended"}
    /\ unit' = <<"retry", 1, 0, 0>>
    /\ RetryFrame

\* stop_event is found set at the head of an iteration.
retry_stopped ==
    /\ unit[1] = "retry"
    /\ unit' = <<"stopped", unit[2], unit[3], unit[4]>>
    /\ RetryFrame

\* _open_alsa_device returns: break.
retry_open_ok ==
    /\ unit[1] = "retry"
    /\ unit' = <<"opened", unit[2], unit[3], unit[4]>>
    /\ RetryFrame

\* _open_alsa_device raises: sleep wait_time, then the next iteration, or
\* the end of the range after the last one.
retry_open_fail ==
    /\ unit[1] = "retry"
    /\ unit' = <<IF unit[2] < max_retries THEN "retry" ELSE "ended",
                 IF unit[2] < max_retries THEN unit[2] + 1 ELSE unit[2],
                 wait_time(unit[2]), unit[4] + wait_time(unit[2])>>
    /\ RetryFrame

\* The range is exhausted with pcm still None: the verdict and its reason
\* are stored under the lock and RuntimeError is raised.
retry_exhausted ==
    /\ unit[1] = "ended"
    /\ unit' = <<"unable", unit[2], unit[3], unit[4]>>
    /\ bitperfect' = FALSE
    /\ bitperfect_reason' = Text("Unable to open ALSA device")
    /\ UNCHANGED <<configVars, current_track, state, position, duration,
                   seek_to_seconds, eventVars, nplays, ctl, loopVars,
                   late_writes, scen, snap, cause, pend, sk, lk, viz, emits,
                   blocks>>

\* ------------------------------------------------------------ the analyzer

\* np.iinfo(dtype).max
iinfo_max(dtype) == IF dtype = "int16" THEN 32767 ELSE 2147483647

\* arr.astype(np.float32) / float(info.max) of an integer sample: both
\* operands as float32 (the maximum of int32 becomes 2^31), then divided.
Normalize(v, dtype) == F32Div(F32FromInt(v), F32FromInt(iinfo_max(dtype)))

\* arr[:, 0] of a (frames, channels) array, normalized.
FirstChannel(chunk) ==
    [i \in 1 .. Len(chunk.frames) |-> Normalize(chunk.frames[i][1], chunk.dtype)]

\* seq[-n:]
LastN(seq, n) == SubSeq(seq, Len(seq) - n + 1, Len(seq))

\* A roll towards the end of the buffer.
RollRight(buf, shift) ==
    [i \in 1 .. Len(buf) |-> buf[((i - 1 - shift) % Len(buf)) + 1]]

\* np.roll(buf, -shift)
Roll(buf, shift) ==
    [i \in 1 .. Len(buf) |-> buf[((i - 1 + shift) % Len(buf)) + 1]]

\* The rolling buffer after a non-empty array arr of samples.
BufferAfter(buf, arr) ==
    IF Len(arr) >= fft_size
    THEN LastN(arr, fft_size)
    ELSE [i \in 1 .. fft_size |->
            IF i > fft_size - Len(arr) THEN arr[i - (fft_size - Len(arr))]
            ELSE Roll(buf, Len(arr))[i]]

\* buffer_fill after a non-empty array of n samples.
FillAfter(fill, n) == IF n >= fft_size THEN fft_size ELSE Min(fft_size, fill + n)

\* np.hanning(fft_size) for the buffer of three samples: 0, 1, 0.
hanning == <<F32Zero, F32FromInt(1), F32Zero>>

\* data = self.buffer * win
Windowed(buf) == [i \in 1 .. fft_size |-> F32Mul(buf[i], hanning[i])]

\* _get_samplerate(): the tagged rate of the engine's current track, and
\* 44100 when there is no engine, no current track or no tag.  A track at
\* 44.1 kHz and one at 96 kHz.
SampleRates == {44100, 96000}

\* |a - b|
AbsDiff(a, b) == IF a >= b THEN a - b ELSE b - a

\* The bin of the transform that _map_to_log_bands takes for the one band
\* from fmin to fmax Hz.  The transform of three samples has bin 0 at 0 Hz
\* and bin 1 at sr / 3 Hz.  fmin is at least 1, so bin 0 is never inside
\* the band; bin 1 is taken when fmin <= sr / 3 < fmax, and otherwise the
\* bin nearest to the middle (fmin + fmax) / 2 of the band, bin 0 when both
\* are as near (np.argmin).  The edges come out of np.logspace and may be
\* off fmin and fmax by a rounding; no bin is that near an edge here.
BandBin(sr, fmin, fmax) ==
    IF 3 * fmin <= sr /\ sr < 3 * fmax THEN 1
    ELSE IF 3 * (fmin + fmax) <= AbsDiff(2 * sr, 3 * (fmin + fmax)) THEN 0
    ELSE 1

\* The float32 level -120 dB, below which _map_to_log_bands lets no band
\* fall (the power mean is raised to 1e-12).
Floor == F32(TRUE, 15728640, 0 - 17)

\* The level of the one band for a windowed buffer <<0, x, 0>>, one row for
\* each sample value x that a block holds.  Both bins of the transform
\* have the magnitude |x|, divided by 1.5; the level is 20 log10 of that,
\* plus the A-weighting of the bin's frequency when that is on (-200 dB at
\* 0 Hz, -5.80 dB at 14700 Hz, -15.93 dB at 32000 Hz), and through the
\* power mean never below -120 dB.  Each row holds the float32 results:
\* 0 and 1/2^31 give the floor whatever the bin; 1/32767 gives -93.83056 dB
\* plain, and weighted -99.63154 dB at 14700 Hz, -109.76331 dB at 32000 Hz
\* and the floor at 0 Hz.
LevelTable ==
    { [x |-> F32Zero, plain |-> Floor,
       weighted |-> [sr \in SampleRates |-> Floor]],
      [x |-> F32(FALSE, 8388608, 0 - 54), plain |-> Floor,
       weighted |-> [sr \in SampleRates |-> Floor]],
      [x |-> F32(FALSE, 8388864, 0 - 38), plain |-> F32(TRUE, 12298559, 0 - 17),
       weighted |-> [sr \in SampleRates |->
                       IF sr = 44100 THEN F32(TRUE, 13058905, 0 - 17)
                       ELSE F32(TRUE, 14386896, 0 - 17)]] }

\* band_db of _compute_fft: rfft, magnitude, dB, A-weighting and
\* _map_to_log_bands on the windowed buffer, at the sample rate sr and for
\* the band from fmin to fmax.
BandDb(data, a_weight, sr, fmin, fmax) ==
    LET row == CHOOSE r \in LevelTable : r.x = data[2]
        level == IF ~a_weight THEN row.plain
                 ELSE IF BandBin(sr, fmin, fmax) = 0 THEN Floor
                 ELSE row.weighted[sr]
    IN [b \in Bands |-> level]

\* The EMA of _compute_fft, smoothing in hundredths: alpha = 1.0 - smoothing
\* and 1.0 - alpha are Python floats that become float32 when they meet the
\* arrays; for every slider value they are the float32 nearest to
\* (100 - smoothing) / 100 and to smoothing / 100.
Smoothed(prev, band_db, smoothing) ==
    F32Add(F32Mul(F32Div(F32FromInt(smoothing), F32FromInt(100)), prev),
           F32Mul(F32Div(F32FromInt(100 - smoothing), F32FromInt(100)), band_db))

\* The decay step 0.6 of a peak, as a float32.  For a peak below -4 dB, as
\* every peak of LevelTable's levels is, peak - 0.6 stored into the float32
\* array is the same value whether the subtraction is done in single or in
\* double precision.
peak_decay == F32Div(F32FromInt(6), F32FromInt(10))

\* A peak hold that decays by the step without looking at the level.
PeakAfterUnclamped(v, peak, peak_time, now, hold) ==
    IF F32Lt(peak, v) THEN [value |-> v, time |-> now]
    ELSE IF now - peak_time > hold
         THEN [value |-> F32Sub(peak, peak_decay), time |-> peak_time]
         ELSE [value |-> peak, time |-> peak_time]

\* The peak-hold update of one band in _compute_fft.
PeakAfter(v, peak, peak_time, now, hold) ==
    IF F32Lt(peak, v) THEN [value |-> v, time |-> now]
    ELSE IF now - peak_time > hold
         THEN [value |-> F32Max(v, F32Sub(peak, peak_decay)), time |-> peak_time]
         ELSE [value |-> peak, time |-> peak_time]

\* _compute_fft on the analyzer z, at the sample rate sr and the clock now.
\* math.log10 of a max_freq that is not positive raises in
\* _map_to_log_bands (line 239), before anything is stored.
ComputeFft(z, sr, now) ==
    LET band_db == BandDb(Windowed(z.buffer), z.a_weight, sr, z.min_freq, z.max_freq)
        sm == [b \in Bands |-> Smoothed(z.smoothed[b], band_db[b], z.smoothing)]
        pk == [b \in Bands |->
                 PeakAfter(sm[b], z.peak_values[b], z.peak_times[b], now, z.peak_hold)]
    IN IF z.max_freq <= 0 THEN z
       ELSE
       [z EXCEPT !.smoothed = sm,
                 !.latest_db = band_db,
                 !.peak_values = [b \in Bands |-> pk[b].value],
                 !.peak_times = [b \in Bands |-> pk[b].time],
                 !.now = now,
                 !.analyses = @ + 1]

\* Blocks as the engine emits them for a 16-bit track: two channels, int16
\* samples; every sequence of up to fft_size + 1 frames whose first-channel
\* samples are 0 or 1.
ChunkDtypes == {"int16"}
ChunkLengths == 0 .. fft_size + 1
SampleValues == {0, 1}
Chunks ==
    {[dtype |-> d, frames |-> f] :
        d \in ChunkDtypes,
        f \in UNION {[1 .. n -> {<<v, 9>> : v \in SampleValues}] : n \in ChunkLengths}}

\* The ranges set_frequency_range is called with: the constructor's, one
\* from 0 Hz that ends below bin 1, one that begins above 14700 Hz, and one
\* that ends at 0 Hz.
FrequencyRanges == {<<20, 20000>>, <<0, 1000>>, <<20000, 40000>>, <<20, 0>>}

\* Clock advances between analyses, in hundredths of a second.
Ticks == {50, 150}

\* The slider positions tried: smoothing in hundredths, hold time in
\* hundredths of a second.
SmoothingValues == {0, smoothing_default, 99}
HoldValues == {0, peak_hold_seconds}

VizFrame ==
    UNCHANGED <<engineVars, eventVars, nplays, ctl, loopVars, late_writes,
                scen, snap, cause, pend, sk, lk, emits, blocks>>

\* push_chunk(pcm): an empty array returns at once; otherwise the buffer is
\* updated and, once it is full, _compute_fft runs at the sample rate and
\* the clock it reads.
push_chunk(chunk) ==
    /\ Len(viz.pushed) + Len(chunk.frames) <= MaxSamples
    /\ LET arr == FirstChannel(chunk)
           z == [viz EXCEPT !.buffer = BufferAfter(viz.buffer, arr),
                            !.buffer_fill = FillAfter(viz.buffer_fill, Len(arr)),
                            !.pushed = viz.pushed \o arr]
       IN IF Len(arr) = 0 THEN viz' = viz
          ELSE IF z.buffer_fill >= fft_size
          THEN \E sr \in SampleRates, dt \in Ticks :
                    viz' = ComputeFft(z, sr, viz.now + dt)
          ELSE viz' = z
    /\ unit' = <<"push", Len(chunk.frames)>>
    /\ VizFrame

\* _toggle_a_weight(checked)
toggle_a_weight(checked) ==
    /\ viz' = [viz EXCEPT !.a_weight = checked]
    /\ unit' = <<"control">>
    /\ VizFrame

\* set_frequency_range(fmin, fmax), in Hz
set_frequency_range(fmin, fmax) ==
    /\ viz' = [viz EXCEPT !.min_freq = Max(1, fmin), !.max_freq = fmax]
    /\ unit' = <<"control">>
    /\ VizFrame

\* _smooth_changed(v)
smooth_changed(v) ==
    /\ viz' = [viz EXCEPT !.smoothing = v]
    /\ unit' = <<"control">>
    /\ VizFrame

\* _peak_changed(v)
peak_changed(v) ==
    /\ viz' = [viz EXCEPT !.peak_hold = v]
    /\ unit' = <<"control">>
    /\ VizFrame

\* _clear_peaks()
clear_peaks ==
    /\ viz' = [viz EXCEPT !.peak_values = [b \in Bands |-> F32FromInt(0 - 200)],
                          !.peak_times = [b \in Bands |-> 0]]
    /\ unit' = <<"control">>
    /\ VizFrame

\* ------------------------------------------- locks, statement by statement

\* The statements of _playback_loop that take a lock or block, in program
\* order. kind "acquire": the with-statement waiting for the lock it names;
\* "release": the body of that with-block, the lock held; "blocking": the
\* loop inside a call that blocks (device open, sleep, decoder reposition,
\* block read, device write); "plain": any other statement. next: the
\* statements control can pass to.
Stmt(k, l, n) == [kind |-> k, lock |-> l, next |-> n]

StatementTable ==
    [ open_file             |-> Stmt("plain", "", {"lock_duration", "map_subtype", "lock_except"}),
      lock_duration         |-> Stmt("acquire", "lock", {"set_duration"}),
      set_duration          |-> Stmt("release", "lock", {"map_subtype"}),
      map_subtype           |-> Stmt("plain", "", {"stop_check", "lock_except"}),
      stop_check            |-> Stmt("plain", "", {"device_open", "lock_except"}),
      device_open           |-> Stmt("blocking", "", {"lock_verdict", "backoff"}),
      backoff               |-> Stmt("blocking", "", {"stop_check", "lock_no_pcm"}),
      lock_no_pcm           |-> Stmt("acquire", "lock", {"set_no_pcm"}),
      set_no_pcm            |-> Stmt("release", "lock", {"lock_except"}),
      lock_verdict          |-> Stmt("acquire", "lock", {"set_verdict"}),
      set_verdict           |-> Stmt("release", "lock", {"lock_initial_seek"}),
      lock_initial_seek     |-> Stmt("acquire", "seek_lock", {"take_initial_seek"}),
      take_initial_seek     |-> Stmt("release", "seek_lock", {"initial_reposition", "while"}),
      initial_reposition    |-> Stmt("blocking", "", {"lock_initial_position", "while"}),
      lock_initial_position |-> Stmt("acquire", "lock", {"set_initial_position"}),
      set_initial_position  |-> Stmt("release", "lock", {"while"}),
      while                 |-> Stmt("plain", "", {"pause_check", "close"}),
      pause_check           |-> Stmt("plain", "", {"pause_sleep", "lock_seek"}),
      pause_sleep           |-> Stmt("blocking", "", {"while"}),
      lock_seek             |-> Stmt("acquire", "seek_lock", {"take_seek"}),
      take_seek             |-> Stmt("release", "seek_lock", {"reposition", "read"}),
      reposition            |-> Stmt("blocking", "", {"lock_seek_position", "read"}),
      lock_seek_position    |-> Stmt("acquire", "lock", {"set_seek_position"}),
      set_seek_position     |-> Stmt("release", "lock", {"read"}),
      read                  |-> Stmt("blocking", "", {"emit", "close", "lock_except"}),
      emit                  |-> Stmt("plain", "", {"write"}),
      write                 |-> Stmt("blocking", "", {"lock_position", "close"}),
      lock_position         |-> Stmt("acquire", "lock", {"set_position"}),
      set_position          |-> Stmt("release", "lock", {"while"}),
      lock_except           |-> Stmt("acquire", "lock", {"set_except"}),
      set_except            |-> Stmt("release", "lock", {"close"}),
      close                 |-> Stmt("plain", "", {"lock_exit"}),
      lock_exit             |-> Stmt("acquire", "lock", {"set_exit"}),
      set_exit              |-> Stmt("release", "lock", {"done"}) ]

Labels == DOMAIN StatementTable

\* A loop that writes the block and reads the decoder position inside one
\* block of the session lock.
StatementWriteUnderLock(l) ==
    CASE l = "emit"          -> Stmt("plain", "", {"lock_position"})
      [] l = "lock_position" -> Stmt("acquire", "lock", {"write"})
      [] l = "write"         -> Stmt("blocking", "", {"set_position"})
      [] OTHER               -> StatementTable[l]

\* A loop that publishes the position of a seek inside the block of the seek
\* lock: it takes the session lock while it holds the seek lock.
StatementSeekUnderSeekLock(l) ==
    CASE l = "take_seek"          -> Stmt("plain", "", {"lock_seek_position", "reposition"})
      [] l = "set_seek_position"  -> Stmt("release", "lock", {"reposition"})
      [] l = "reposition"         -> Stmt("release", "seek_lock", {"read"})
      [] OTHER                    -> StatementTable[l]

\* The statement at a label of _playback_loop.
Statement(l) == StatementTable[l]

\* The locks a control call takes, in order: play() takes the seek lock
\* inside the session lock and starts the new thread before it leaves the
\* block of the session lock, seek() takes one after the other, every other
\* call (pause, resume, stop, set_output_device, set_music_dir, get_position,
\* get_duration, status) takes the session lock alone.
CallScript(name) ==
    CASE name = "play" -> << <<"acquire", "lock">>, <<"acquire", "seek_lock">>,
                             <<"release", "seek_lock">>, <<"start", "lock">>,
                             <<"release", "lock">> >>
      [] name = "seek" -> << <<"acquire", "seek_lock">>, <<"release", "seek_lock">>,
                             <<"acquire", "lock">>, <<"release", "lock">> >>
      [] OTHER         -> << <<"acquire", "lock">>, <<"release", "lock">> >>

CallNames == {"play", "seek", "status"}

LockFrame ==
    UNCHANGED <<engineVars, eventVars, nplays, ctl, loopVars, histVars, viz, emits, blocks>>

\* The sessions no thread runs in.
FreeSessions == {s \in Sessions : lk.at[s] \in {"new", "done"}}

\* The control thread enters a call; a play() only while fewer loops run
\* than there are sessions to run them in.
ctl_call(name) ==
    /\ lk.call = << >>
    /\ name = "play" => FreeSessions # {}
    /\ lk' = [lk EXCEPT !.call = CallScript(name)]
    /\ LockFrame

\* The control thread's with-statement gets its lock.
ctl_acquire ==
    /\ lk.call # << >>
    /\ Head(lk.call)[1] = "acquire"
    /\ lk[Head(lk.call)[2]] = <<"free">>
    /\ lk' = [lk EXCEPT ![Head(lk.call)[2]] = <<"ctl">>, !.call = Tail(lk.call)]
    /\ LockFrame

\* The control thread leaves a with-block.
ctl_release ==
    /\ lk.call # << >>
    /\ Head(lk.call)[1] = "release"
    /\ lk' = [lk EXCEPT ![Head(lk.call)[2]] = <<"free">>, !.call = Tail(lk.call)]
    /\ LockFrame

\* play() starts the thread of a new loop as the last statement of its
\* lock block: the loop runs from here on, the lock still held by play().
ctl_start_loop ==
    /\ lk.call # << >>
    /\ Head(lk.call)[1] = "start"
    /\ FreeSessions # {}
    /\ lk' = [lk EXCEPT !.call = Tail(lk.call),
                        !.at[CHOOSE s \in FreeSessions : TRUE] = "open_file"]
    /\ LockFrame

\* The loop's with-statement gets its lock.
loop_acquire(s) ==
    /\ lk.at[s] \in Labels
    /\ Statement(lk.at[s]).kind = "acquire"
    /\ lk[Statement(lk.at[s]).lock] = <<"free">>
    /\ \E n \in Statement(lk.at[s]).next :
          lk' = [lk EXCEPT ![Statement(lk.at[s]).lock] = <<"loop", s>>, !.at[s] = n]
    /\ LockFrame

\* The loop leaves a with-block.
loop_release(s) ==
    /\ lk.at[s] \in Labels
    /\ Statement(lk.at[s]).kind = "release"
    /\ \E n \in Statement(lk.at[s]).next :
          lk' = [lk EXCEPT ![Statement(lk.at[s]).lock] = <<"free">>, !.at[s] = n]
    /\ LockFrame

\* A blocking call of the loop returns.
loop_unblock(s) ==
    /\ lk.at[s] \in Labels
    /\ Statement(lk.at[s]).kind = "blocking"
    /\ \E n \in Statement(lk.at[s]).next : lk' = [lk EXCEPT !.at[s] = n]
    /\ LockFrame

\* Any other statement of the loop.
loop_statement(s) ==
    /\ lk.at[s] \in Labels
    /\ Statement(lk.at[s]).kind = "plain"
    /\ \E n \in Statement(lk.at[s]).next : lk' = [lk EXCEPT !.at[s] = n]
    /\ LockFrame

\* ------------------------------------------------------------ specification

\* The steps of one streaming loop whose decoder calls return, apart from
\* a failing open, the caller never seeking: no pending seek is ever found.
LoopRun(s) ==
    \/ loop_open_file(s)
    \/ loop_open_file_error(s)
    \/ loop_open_stopped(s)
    \/ loop_open_try(s)
    \/ loop_open_call(s)
    \/ loop_open_ok(s)
    \/ loop_bitperfect_args(s)
    \/ loop_set_bitperfect(s)
    \/ loop_initial_seek_take(s)
    \/ loop_while(s)
    \/ loop_pause_check(s)
    \/ loop_seek_take(s)
    \/ loop_read(s)
    \/ loop_emit(s)
    \/ loop_write_ok(s)
    \/ loop_write_fail(s)
    \/ loop_position(s)
    \/ loop_except(s)
    \/ loop_close(s)
    \/ loop_exit(s)

\* A loop whose open may return at any call and may raise while a handle is
\* open.
LoopStepNoSeek(s) ==
    \/ LoopRun(s)
    \/ loop_open_busy(s)
    \/ loop_no_pcm(s)

\* The same with the seeks a caller asks for.
LoopStep(s) ==
    \/ LoopStepNoSeek(s)
    \/ loop_initial_seek_apply(s)
    \/ loop_seek_apply(s)

\* A loop on a device whose open may fail at any attempt.
LoopStepAnyFail(s) ==
    \/ LoopRun(s)
    \/ loop_open_fail(s)
    \/ loop_no_pcm(s)

\* A decoder call that raises: a seek, a read, a tell.
LoopFault(s) ==
    \/ loop_initial_seek_error(s)
    \/ loop_seek_error(s)
    \/ loop_read_error(s)
    \/ loop_position_error(s)

\* Every step of one streaming loop.
LoopStepAll(s) ==
    \/ LoopStepAnyFail(s)
    \/ loop_initial_seek_apply(s)
    \/ loop_seek_apply(s)
    \/ LoopFault(s)
    \/ loop_emit_fail(s)

\* A playable two-block track and an unsupported one.
CoreIds == {0, 2}

\* play() calls and the loops they start, over the whole library.
NextPlay ==
    \/ \E id \in TrackIds : play_signal(id)
    \/ play_start
    \/ \E s \in Sessions : LoopStepNoSeek(s)

\* Threads are scheduled fairly and every device call returns.
SpecPlay ==
    InitDefaults /\ [][NextPlay]_vars /\ \A s \in Sessions : WF_vars(LoopStepNoSeek(s))

\* play, pause, resume, stop and the loops.
NextCore ==
    \/ \E id \in CoreIds : play_signal(id)
    \/ play_start
    \/ pause
    \/ resume
    \/ stop
    \/ \E s \in Sessions : LoopStepNoSeek(s)

SpecCore == InitDefaults /\ [][NextCore]_vars

\* play, pause and stop of the two-block track.
NextCoreBusy ==
    \/ play_signal(0)
    \/ play_start
    \/ pause
    \/ stop
    \/ \E s \in Sessions : LoopStepNoSeek(s)

\* Every loop thread is scheduled again and again.
SpecCoreFair ==
    InitDefaults /\ [][NextCoreBusy]_vars /\ \A s \in Sessions : WF_vars(LoopStepNoSeek(s))

\* A single play() call.
play_once(id) == nplays = 0 /\ play_signal(id)

\* One session on a device whose open may fail at any attempt, with the
\* decoder faults.
NextOpen ==
    \/ \E id \in CoreIds : play_once(id)
    \/ play_start
    \/ pause
    \/ resume
    \/ stop
    \/ \E s \in Sessions : LoopStepAnyFail(s)

SpecOpen == InitDefaults /\ [][NextOpen]_vars

\* One play and stop calls, play() calls on an id the library does not hold
\* and changes of the library's directory; the open of the one loop
\* returns.
NextErr ==
    \/ \E id \in CoreIds : play_once(id)
    \/ \E id \in PlayIds : play_not_found(id)
    \/ \E dir \in Dirs : set_music_dir(dir)
    \/ scan_library
    \/ save_config
    \/ save_config_error
    \/ play_start
    \/ stop
    \/ \E s \in Sessions : LoopRun(s)

SpecErr == Init /\ [][NextErr]_vars

\* Seek arguments below zero and past the end of every track.
EdgeSeeks == {0 - BUFFER_FRAMES, 3 * BUFFER_FRAMES}

\* play, pause, resume, stop, seek past the end of every track, and the
\* loops.
NextCalls ==
    \/ \E id \in CoreIds : play_signal(id)
    \/ play_start
    \/ pause
    \/ resume
    \/ stop
    \/ seek_record(3 * BUFFER_FRAMES)
    \/ seek_publish
    \/ \E s \in Sessions : LoopStep(s)

SpecCalls == InitDefaults /\ [][NextCalls]_vars

\* The classifier and the mapper called on every pair of inputs.
NextUnit ==
    \/ \E d \in ClassifierDevices, t \in Subtypes : set_bitperfect_state(t, d)
    \/ \E t \in Subtypes : map_subtype(t)

SpecUnit == InitDefaults /\ [][NextUnit]_vars

\* The two integer PCM tracks of the library.
PcmIds == {0, 1}

\* play of the PCM tracks, selection of the exclusive or the converting
\* device, and the loops.
NextEndToEnd ==
    \/ \E id \in PcmIds : play_signal(id)
    \/ play_start
    \/ \E d \in {DevHw, DevPlug} : set_output_device(d)
    \/ save_config
    \/ save_config_error
    \/ \E s \in Sessions : LoopStepNoSeek(s)

SpecEndToEnd == InitDefaults /\ [][NextEndToEnd]_vars

\* The open retries alone.
RetryStep == retry_stopped \/ retry_open_ok \/ retry_open_fail \/ retry_exhausted

NextRetry ==
    \/ retry_begin
    \/ retry_stopped
    \/ retry_open_ok
    \/ retry_open_fail
    \/ retry_exhausted

SpecRetry == InitDefaults /\ [][NextRetry]_vars /\ WF_vars(RetryStep)

\* The analyzer alone: blocks pushed to it, its four controls and its
\* frequency range.
NextViz ==
    \/ \E chunk \in Chunks : push_chunk(chunk)
    \/ \E r \in FrequencyRanges : set_frequency_range(r[1], r[2])
    \/ \E checked \in BOOLEAN : toggle_a_weight(checked)
    \/ \E v \in SmoothingValues : smooth_changed(v)
    \/ \E v \in HoldValues : peak_changed(v)
    \/ clear_peaks

SpecViz == InitDefaults /\ [][NextViz]_vars

\* play calls and loops whose emit may raise.
NextEmit ==
    \/ \E id \in CoreIds : play_signal(id)
    \/ play_start
    \/ \E s \in Sessions : LoopStepNoSeek(s)
    \/ \E s \in Sessions : loop_emit_fail(s)

SpecEmit == InitDefaults /\ [][NextEmit]_vars

\* Control calls and loops at the level of their lock statements.
ControlLockStep == ctl_acquire \/ ctl_release \/ ctl_start_loop

NextLocks ==
    \/ \E name \in CallNames : ctl_call(name)
    \/ ctl_acquire
    \/ ctl_release
    \/ ctl_start_loop
    \/ \E s \in Sessions : loop_acquire(s)
    \/ \E s \in Sessions : loop_release(s)
    \/ \E s \in Sessions : loop_unblock(s)
    \/ \E s \in Sessions : loop_statement(s)

\* The control thread keeps running and gets a lock that is free again and
\* again; a loop keeps running except inside a blocking call, where it may
\* stay for ever.
SpecLocks ==
    /\ InitDefaults /\ [][NextLocks]_vars
    /\ SF_vars(ControlLockStep)
    /\ \A s \in Sessions : WF_vars(loop_release(s) \/ loop_statement(s))

\* play and set_output_device calls and the loops.
NextDev ==
    \/ \E id \in CoreIds : play_signal(id)
    \/ play_start
    \/ \E d \in Devices : set_output_device(d)
    \/ save_config
    \/ save_config_error
    \/ \E s \in Sessions : LoopStepNoSeek(s)

SpecDev == InitDefaults /\ [][NextDev]_vars

\* play and stop calls and loops whose read and tell may raise.
NextFaults ==
    \/ \E id \in CoreIds : play_signal(id)
    \/ play_start
    \/ stop
    \/ \E s \in Sessions : LoopStepNoSeek(s)
    \/ \E s \in Sessions : loop_read_error(s)
    \/ \E s \in Sessions : loop_position_error(s)

SpecFaults == InitDefaults /\ [][NextFaults]_vars

\* play and seek calls and loops whose decoder calls may raise.
NextSeekFaults ==
    \/ \E id \in CoreIds : play_signal(id)
    \/ play_start
    \/ \E x \in EdgeSeeks : seek_record(x)
    \/ seek_publish
    \/ \E s \in Sessions : LoopStep(s)
    \/ \E s \in Sessions : LoopFault(s)

SpecSeekFaults == InitDefaults /\ [][NextSeekFaults]_vars



\* Every control call, over the whole library.
Next ==
    \/ \E d \in Devices : set_output_device(d)
    \/ \E id \in PlayIds : play_not_found(id)
    \/ \E id \in PlayIds : play_signal(id)
    \/ play_start
    \/ pause
    \/ resume
    \/ stop
    \/ \E x \in SeekInputs : seek_record(x)
    \/ seek_publish
    \/ \E dir \in Dirs : set_music_dir(dir)
    \/ ConfigStep
    \/ \E s \in Sessions : LoopStepAll(s)

Spec == Init /\ [][Next]_vars


\* ------------------------------------------------------------------ claims

\* The streaming loop of the engine's current Event pair, if it is running.
CurrentLoops == {s \in Alive : ev[s] = cur}

\* C2: after play(A) then play(B) on a fresh engine, A # B and no further
\* call: status().current_track_id is B from the return of play(B) until
\* B's loop has run its exit block, whatever A's loop does meanwhile; and A's loop ends,
\* so that B's is the only loop that can still be running.
C2_PlayAThenPlayB ==
    /\ []((scen[1] = "AB" /\ nplays = 2 /\ pc[2] # "done")
            => status.current_track_id = Some(scen[3]))
    /\ ((scen[1] = "AB" /\ nplays = 2) ~> (scen[1] = "AB" => pc[1] = "done"))

\* A's loop is gone, B's loop holds the device and B is the current track.
C2_Witness ==
    /\ scen[1] = "AB" /\ nplays = 2
    /\ pc[1] = "done" /\ pc[2] = "write" /\ pcm[2]
    /\ status.current_track_id = Some(scen[3])

\* C3 as stated: a loop whose stop flag has been signalled writes no further
\* block to the device.
C3_NoWriteAfterSignal == \A s \in Sessions : late_writes[s] = 0

\* C3 as amended: a loop whose stop flag has been signalled writes at most
\* one further block, the one of the iteration that had passed its stop
\* check, and it is then on its way out: it never reads another block.
C3_AtMostOneLateWrite ==
    \A s \in Sessions :
        /\ late_writes[s] <= 1
        /\ late_writes[s] = 1 => pc[s] \in {"position", "while", "finally", "exit"}

\* A superseded loop has written its one late block.
C3_Witness ==
    \E s \in Alive : late_writes[s] = 1 /\ ev[s] # cur /\ pc[s] = "while"

\* C4: the step of play() that starts the thread hands it an Event pair no
\* one held before, both flags clear, whatever was signalled on earlier
\* pairs; and a loop's stop or pause flag becomes set only by a call made
\* while its pair is the engine's current one.
C4_FreshFlagsPerPlay ==
    [][ /\ (nplays' = nplays + 1) =>
            /\ ev'[nplays'] # cur
            /\ \A t \in Alive : ev'[nplays'] # ev[t]
            /\ cur' = ev'[nplays']
            /\ ~stop_set'[ev'[nplays']]
            /\ ~pause_set'[ev'[nplays']]
        /\ \A t \in Alive :
            ((stop_set'[ev[t]] /\ ~stop_set[ev[t]]) \/
             (pause_set'[ev[t]] /\ ~pause_set[ev[t]]))
            => (cur = ev[t] /\ UNCHANGED pc) ]_vars

\* A new loop has been started with clear flags while the pair of the loop it
\* superseded has both flags set.
C4_Witness ==
    \E s, t \in Alive :
        /\ s < t /\ ev[t] = cur /\ pc[t] = "start"
        /\ stop_set[ev[s]] /\ pause_set[ev[s]]
        /\ ~stop_set[ev[t]] /\ ~pause_set[ev[t]]

\* C5: a play() that raises for an unknown id changes no session field, no
\* Event, no pending seek, and starts no thread.
C5_PlayNotFoundNoEffect ==
    [][ (ctl[1] # "raised" /\ ctl'[1] = "raised")
        => UNCHANGED <<engineVars, eventVars, nplays, loopVars>> ]_vars

\* play() has raised for an id that the library of the inner directory,
\* scanned while a stream was playing, does not hold, and the stream goes on.
C5_Witness ==
    /\ ctl[1] = "raised"
    /\ music_dir = AltDir /\ config = SaveConfig(ALSA_CARD, AltDir)
    /\ state = PLAYING
    /\ \E s \in CurrentLoops : pc[s] = "write" /\ ~stop_set[ev[s]]

\* C6 as stated: state becomes Paused only from Playing.
C6_PausedOnlyFromPlaying ==
    [][ (state' = PAUSED /\ state # PAUSED) => state = PLAYING ]_vars

\* C7 as stated: state becomes Playing only by play() or from Paused.
C7_PlayingOnlyByPlayOrFromPaused ==
    [][ (state' = PLAYING /\ state # PLAYING)
        => (state = PAUSED \/ nplays' = nplays + 1) ]_vars

\* C8 as stated: pause() then resume() on a running stream whose loop has
\* parked in the pause poll leaves current_track as pause() found it and
\* position as it was when the loop parked, and state is Playing.
C8_PauseResumeKeepsSession ==
    [][ (state = PAUSED /\ state' = PLAYING /\ nplays' = nplays /\ Len(snap) = 2)
        => (current_track' = snap[1] /\ position' = snap[2]) ]_vars

\* C9: stop() sets the current stop flag, clears the current pause flag and
\* sets state to Stopped in one step that moves no loop; and while state is
\* Stopped the two flags stay so.
C9_StopEffect ==
    /\ [](state = STOPPED => (stop_set[cur] /\ ~pause_set[cur]))
    /\ [][ (state' = STOPPED /\ state # STOPPED)
           => (cur' = cur /\ stop_set'[cur] /\ ~pause_set'[cur]
               /\ UNCHANGED <<pc, pcm, nplays>>) ]_vars

\* stop() has returned and the loop it stopped still holds the device.
C9_Witness ==
    /\ state = STOPPED
    /\ \E s \in CurrentLoops : pcm[s] /\ pc[s] = "write"

\* min(max(s, 0), duration)
ClampToDuration(seconds, d) == Min(Max(seconds, 0), d)

\* C10 as stated: during a stream, the target seek() records and the position
\* it publishes are the argument clamped into [0, duration].
C10_SeekClampsToDuration ==
    [][ /\ (ctl[1] # "seek" /\ ctl'[1] = "seek" /\ state = PLAYING /\ duration > 0)
            => seek_to_seconds' = Some(ClampToDuration(ctl'[2], duration))
        /\ (ctl[1] = "seek" /\ ctl'[1] # "seek" /\ state = PLAYING /\ duration > 0)
            => position' = ClampToDuration(ctl[2], duration) ]_vars

\* C11, with the one block of tolerance the specification grants: after a
\* seek(s) made while a stream is playing, the loop of that stream reads at
\* most one block that does not start at the frame of s (the block of the
\* iteration that had already passed its seek check) before it reads from
\* that frame; pend[2] counts the reads that started elsewhere.
C11_SeekAppliedWithinOneBlock == pend # None => pend[2] <= 1

\* C12: the published position never exceeds the published duration.  Stated
\* for callers that never seek, so that the transient the claim excepts (from
\* a seek() to the loop's next read) cannot occur.
C12_PositionWithinDuration == position <= duration

\* C13, a consequence of it: the bit-perfect verdict a loop publishes after
\* its open is the classifier's verdict for the device that loop opened
\* (which the claim says is the device configured when play() was issued).
C13_VerdictOfOpenedDevice ==
    [][ \A s \in Sessions :
          (pc[s] = "bitperfect_store" /\ pc'[s] = "initial_seek")
          => bitperfect' = BitperfectState(pcm_device[s][1],
                                           TrackSubtype(path[s])).bitperfect ]_vars

\* The device id starts with the exclusive prefix 'hw:'.
ExclusiveId(device) == Len(device) >= 3 /\ SubSeq(device, 1, 3) = <<"h", "w", ":">>
\* The encoding is integer PCM of 16, 24 or 32 bits.
IntegerPcm(subtype) == subtype \in {"PCM_16", "PCM_24", "PCM_32"}

\* C14: the classifier stores bit_perfect = true if and only if the device id
\* starts with 'hw:' and the encoding is PCM_16, PCM_24 or PCM_32; for every
\* other pair (empty id, 'plughw:', 'default', ...) it stores false.
C14_ClassifierVerdict ==
    unit[1] = "classify"
    => (bitperfect <=> (ExclusiveId(unit[2]) /\ IntegerPcm(unit[3])))

\* A 24-bit file on a second exclusive card is classified bit-perfect.
C14_Witness ==
    /\ unit = <<"classify", <<"h", "w", ":", "1", ",", "0">>, "PCM_24">>
    /\ bitperfect

\* C15: with a false verdict the reason is not empty: the device reason
\* whenever the id is not exclusive, whatever the encoding; the format reason
\* ending in the subtype when the id is exclusive and the encoding is not
\* integer PCM; with a true verdict the reason is empty.
C15_ClassifierReason ==
    unit[1] = "classify"
    => /\ bitperfect => bitperfect_reason = EmptyText
       /\ ~bitperfect => bitperfect_reason # EmptyText
       /\ ~ExclusiveId(unit[2])
            => bitperfect_reason = <<"Using non-hw ALSA device (likely mixed/resampled)">>
       /\ (ExclusiveId(unit[2]) /\ ~IntegerPcm(unit[3]))
            => bitperfect_reason = <<"Unsupported or non-integer subtype: ", unit[3]>>

\* A floating-point file on a converting device gets the device reason.
C15_Witness ==
    /\ unit = <<"classify", DevPlug, "FLOAT">>
    /\ ~bitperfect
    /\ bitperfect_reason = <<"Using non-hw ALSA device (likely mixed/resampled)">>

\* C16: the mapper returns a pair for PCM_16 (16-bit format and element), for
\* PCM_24 and for PCM_32 (both the 32-bit format and element), and raises for
\* every other tag.
C16_FormatMapper ==
    unit[1] = "map"
    => /\ unit[2] = "PCM_16" => unit[3] = <<<<"PCM_FORMAT_S16_LE", "int16">>>>
       /\ unit[2] \in {"PCM_24", "PCM_32"}
            => unit[3] = <<<<"PCM_FORMAT_S32_LE", "int32">>>>
       /\ ~IntegerPcm(unit[2]) => unit[3] = None

\* The mapper has returned the 32-bit pair for a 24-bit file.
C16_Witness ==
    unit = <<"map", "PCM_24", <<<<"PCM_FORMAT_S32_LE", "int32">>>>>>

\* The step in which loop s runs its exit block and ends.
Exits(s) == pc[s] = "exit" /\ pc'[s] = "done"

\* C17: when the loop of the current session, not stopped, ends because every
\* open attempt failed, the state it leaves behind reports bit_perfect false
\* with the device-open reason.
C17_OpenFailureReported ==
    [][ \A s \in Sessions :
          (Exits(s) /\ cause[s] = "open" /\ ev[s] = cur /\ ~stop_set[cur])
          => (~bitperfect' /\ bitperfect_reason' = <<"Unable to open ALSA device">>) ]_vars

\* The loop of the current session ends and no stop was requested.
ExitsUnstopped(s) == Exits(s) /\ ev[s] = cur /\ ~stop_set[cur]

\* C18: a loop whose track has an unsupported encoding goes straight to its
\* exit without an open attempt, a read or a write; and when it is the loop
\* of the current session and was not stopped, its exit leaves state Idle,
\* no current track and bit_perfect false.
C18_UnsupportedFormatAborts ==
    /\ [](\A s \in Sessions :
            cause[s] = "format"
            => /\ pc[s] \in {"except", "finally", "exit"}
               /\ attempt[s] = 0 /\ ~pcm[s] /\ cursor[s] = 0)
    /\ [][ \A s \in Sessions :
            (ExitsUnstopped(s) /\ cause[s] = "format")
            => (state' = IDLE /\ current_track' = None /\ ~bitperfect') ]_vars

\* C19: after a failed write the loop is on its way out (it can neither read
\* nor write again), the device is closed before the exit block, and when it
\* is the loop of the current session and was not stopped its exit leaves
\* state Idle.
C19_WriteFailureEndsStream ==
    /\ [](\A s \in Sessions :
            cause[s] = "write"
            => /\ pc[s] \in {"finally", "exit"}
               /\ pc[s] = "exit" => ~pcm[s])
    /\ [][ \A s \in Sessions :
            (ExitsUnstopped(s) /\ cause[s] = "write") => state' = IDLE ]_vars

\* C20: when the loop of the current session ends and no stop was requested,
\* the exit step sets state Idle, current_track None, position 0 and
\* bit_perfect false together.
C20_ExitReturnsToIdle ==
    [][ \A s \in Sessions :
          ExitsUnstopped(s)
          => (state' = IDLE /\ current_track' = None /\ position' = 0
              /\ ~bitperfect') ]_vars

\* C21: a loop holds the device only between its successful open and the
\* close of its finally block: it gives the handle up in that one step and
\* in no other, passes that step once (finally, exit and done follow each
\* other and are never left backwards), and holds nothing when it runs its
\* exit block or has ended.
C21_DeviceClosedOnce ==
    /\ [](\A s \in Sessions : pc[s] \in {"new", "exit", "done"} => ~pcm[s])
    /\ [][ \A s \in Sessions :
            /\ (pcm[s] /\ ~pcm'[s]) => (pc[s] = "finally" /\ pc'[s] = "exit")
            /\ (~pcm[s] /\ pcm'[s]) => (pc[s] = "open_call" /\ pc'[s] = "bitperfect")
            /\ pc[s] = "finally" => pc'[s] \in {"finally", "exit"}
            /\ pc[s] = "exit" => pc'[s] \in {"exit", "done"} ]_vars

\* A loop whose read raised after two blocks has closed the device and is
\* about to end.
C21_Witness ==
    \E s \in Alive :
        /\ pc[s] = "exit" /\ cause[s] = "read" /\ ~pcm[s]
        /\ Len(blocks[s].written) = 2

\* C22: whenever state is Idle or Stopped, bit_perfect is false.
C22_NotBitperfectWhenIdleOrStopped == state \in {IDLE, STOPPED} => ~bitperfect

\* C23: whenever state is Idle, current_track is None.
C23_NoTrackWhenIdle == state = IDLE => current_track = None

\* A stream has ended on its own and the session is Idle again.
C23_Witness ==
    /\ state = IDLE /\ current_track = None
    /\ nplays >= 1 /\ Alive = {}
    /\ position = 0 /\ duration = TrackFrames(0)

\* Positions of a loop between the publication of its verdict and the end of
\* its read/write cycle.
StreamingPcs ==
    {"initial_seek", "initial_seek_apply", "while", "pause_check", "seek",
     "seek_apply", "read", "emit", "write", "position"}

\* C24 as stated: on the exclusive device of a fresh engine, play of the
\* PCM_16 track (id 0) and no other call: bit_perfect is true once the
\* loop's device is open.  Then, the session being Idle, set_output_device
\* of the converting device and play of the PCM_24 track (id 1): bit_perfect
\* is false with the device reason while that loop holds its device.
C24_VerdictOnceDeviceOpen ==
    /\ (scen = <<"A", 0>> /\ pcm[1]) => bitperfect
    /\ (scen = <<"A_dev_B", 0, DevPlug, 1>> /\ nplays = 2 /\ pcm[2])
         => /\ ~bitperfect
            /\ bitperfect_reason = <<"Using non-hw ALSA device (likely mixed/resampled)">>

\* C24 amended: on the exclusive device of a fresh engine, play of the
\* PCM_16 track (id 0) and no other call: bit_perfect is true from the
\* verdict that the loop stores after its open, while the loop streams.
\* Then, the session being Idle, set_output_device of the converting device
\* and play of the PCM_24 track (id 1): bit_perfect is false with the device
\* reason from that loop's verdict on, while it streams.
C24_EndToEndVerdicts ==
    /\ (scen = <<"A", 0>> /\ pc[1] \in StreamingPcs) => bitperfect
    /\ (scen = <<"A_dev_B", 0, DevPlug, 1>> /\ nplays = 2 /\ pc[2] \in StreamingPcs)
         => /\ ~bitperfect
            /\ bitperfect_reason = <<"Using non-hw ALSA device (likely mixed/resampled)">>

\* The second stream is writing through the converting device.
C24_Witness ==
    /\ scen = <<"A_dev_B", 0, DevPlug, 1>> /\ nplays = 2
    /\ pc[2] = "write" /\ pcm_device[2] = Some(DevPlug)
    /\ ~bitperfect

\* The loop is inside a blocking call.
Blocked(s) == lk.at[s] \in Labels /\ Statement(lk.at[s]).kind = "blocking"

\* C25: a loop inside a blocking call (device open, back-off sleep, pause
\* poll sleep, decoder reposition, block read, device write) holds neither
\* the session lock nor the seek lock, and every control call that has been
\* entered completes even if the loops stay blocked for ever.
C25_NoLockHeldWhileBlocked ==
    /\ [](\A s \in Sessions : Blocked(s) => (lk.lock # <<"loop", s>> /\ lk.seek_lock # <<"loop", s>>))
    /\ (lk.call # << >>) ~> (lk.call = << >>)

\* One loop is in the device write, the other, just started, in the device
\* open, and the control thread still holds the session lock inside play().
C25_Witness ==
    /\ \E s, t \in Sessions : lk.at[s] = "write" /\ lk.at[t] = "device_open"
    /\ lk.lock = <<"ctl">> /\ lk.call = << <<"release", "lock">> >>

\* C26: whatever the outcome of the emit, the loop's next statement is the
\* write of the block it has just read, with the device still open; a loop
\* whose emit failed is at the write or has completed it.
C26_EmitFailureKeepsBlock ==
    /\ [][ \A s \in Sessions :
            (pc[s] = "emit" /\ pc'[s] # "emit")
            => /\ pc'[s] = "write"
               /\ cursor'[s] = cursor[s]
               /\ pcm'[s] = pcm[s]
               /\ cause'[s] = cause[s] ]_vars
    /\ [](\A s \in Sessions :
            emits[s] = "failed" => (pc[s] \in {"write", "position"} /\ pcm[s]))

\* The emit of the second block failed and that block has been written.
C26_Witness ==
    \E s \in Alive :
        /\ emits[s] = "failed" /\ pc[s] = "position"
        /\ cursor[s] = 2 * BUFFER_FRAMES /\ position = BUFFER_FRAMES

\* C27: the rolling buffer has fft_size samples and they are the last
\* fft_size of (fft_size zeros followed by every first-channel sample
\* pushed); in particular a block of fft_size samples or more leaves its own
\* last fft_size samples.  A push of an empty block changes nothing in the
\* analyzer.
C27_RollingBuffer ==
    /\ [](/\ Len(viz.buffer) = fft_size
          /\ viz.buffer = LastN([i \in 1 .. fft_size |-> Zero] \o viz.pushed, fft_size))
    /\ [][ unit' = <<"push", 0>> => viz' = viz ]_vars

\* One block of four samples 1, 1, 0, 1 has been pushed on the new buffer,
\* which holds the last three of them in their order, 1, 0, 1, and not the
\* first three.
C27_Witness ==
    /\ unit = <<"push", fft_size + 1>>
    /\ viz.pushed = << Normalize(1, "int16"), Normalize(1, "int16"), Zero,
                       Normalize(1, "int16") >>
    /\ viz.buffer = << Normalize(1, "int16"), Zero, Normalize(1, "int16") >>
    /\ viz.buffer_fill = fft_size

\* The step is an analysis.
Analysed == viz'.analyses = viz.analyses + 1

\* C28: in every analysis and for every band, with v the smoothed level of
\* that analysis: the peak ends at or above v; it is raised to v and its
\* time set to the clock exactly when v exceeds it; otherwise its time is
\* kept, it is unchanged while no more than the hold time has passed since
\* its time, and after that it goes down by the decay step but not below v.
C28_PeakHold ==
    [][ Analysed =>
          \A b \in Bands :
            LET v == viz'.smoothed[b]
                p == viz.peak_values[b]
                t == viz.peak_times[b]
            IN /\ ~F32Lt(viz'.peak_values[b], v)
               /\ F32Lt(p, v) => (viz'.peak_values[b] = v /\ viz'.peak_times[b] = viz'.now)
               /\ ~F32Lt(p, v)
                    => /\ viz'.peak_times[b] = t
                       /\ viz'.now - t <= viz.peak_hold => viz'.peak_values[b] = p
                       /\ viz'.now - t > viz.peak_hold
                            => /\ viz'.peak_values[b] = F32Max(v, F32Sub(p, peak_decay))
                               /\ ~F32Lt(p, viz'.peak_values[b]) ]_vars

\* A peak was raised to -93.83 dB; with the level fallen to -120 dB the
\* smoothed value went down to -94.09 dB, the hold time passed and the peak
\* came down to the smoothed value, less than a full step.
C28_Witness ==
    /\ viz.analyses = 2
    /\ viz.latest_db[1] = F32FromInt(0 - 120)
    /\ F32Lt(F32Sub(F32(TRUE, 12298559, 0 - 17), peak_decay), viz.smoothed[1])
    /\ F32Lt(viz.smoothed[1], F32(TRUE, 12298559, 0 - 17))
    /\ viz.peak_values[1] = viz.smoothed[1]
    /\ viz.peak_times[1] < viz.now - viz.peak_hold
    /\ viz.peak_times[1] > 0

\* C29: the retry loop makes at most max_retries (80) attempts; the wait
\* after the k-th failed attempt is base_delay * (1 + floor(k / 20)), which
\* never goes down from one failure to the next; and the loop ends, with
\* every attempt failed as well.
C29_BoundedBackoff ==
    /\ [](unit[1] \in {"retry", "stopped", "opened", "ended", "unable"}
           => /\ unit[2] <= max_retries
              /\ (unit[1] \in {"retry", "stopped", "opened"} /\ unit[2] >= 2)
                    => unit[3] = base_delay * (1 + ((unit[2] - 1) \div 20))
              /\ unit[1] \in {"ended", "unable"}
                    => unit[3] = base_delay * (1 + (unit[2] \div 20)))
    /\ [][ (unit[1] = "retry" /\ unit'[1] \in {"retry", "ended"} /\ unit[2] >= 2)
            => unit'[3] >= unit[3] ]_vars
    /\ (unit[1] = "retry") ~> (unit[1] \in {"stopped", "opened", "unable"})

\* All eighty attempts failed; the last wait was five base delays, the
\* loop gave up after 6.12 s of waiting in all and stored its reason.
C29_Witness ==
    /\ unit = <<"unable", max_retries, 5 * base_delay, 204 * base_delay>>
    /\ ~bitperfect
    /\ bitperfect_reason = Text("Unable to open ALSA device")

\* Loop s has been started, has not ended, and its own stop flag is set.
StoppedAndRunning(s) == pc[s] \notin {"new", "done"} /\ stop_set[ev[s]]

\* C30: a started loop whose own stop flag is set reaches its end, wherever
\* the flag finds it: in the open retries, in the pause poll with its pause
\* flag still set, or in the read/write cycle.  Stated in two parts: the
\* flag of a running loop, once set, stays set until the loop has ended;
\* and no loop stays running with its flag set for ever.
C30_StoppedLoopTerminates ==
    /\ [][ \A s \in Sessions :
            (StoppedAndRunning(s) /\ pc'[s] # "done") => StoppedAndRunning(s)' ]_vars
    /\ \A s \in Sessions : <>[](~StoppedAndRunning(s))

\* A replaced loop sits in the pause poll with both of its flags set while
\* the loop that replaced it, stopped in turn, is still at the device open.
C30_Witness ==
    \E s, t \in Alive :
        /\ pc[s] = "pause_check" /\ pause_set[ev[s]] /\ stop_set[ev[s]]
        /\ pc[t] = "open" /\ attempt[t] > 1 /\ stop_set[ev[t]] /\ ev[t] = cur

\* Loop s is at the head of its main loop or in the pause poll, its pause
\* flag set and its stop flag clear, before and after the step.
StaysPaused(s) ==
    /\ pc[s] \in {"while", "pause_check"}
    /\ pause_set[ev[s]] /\ ~stop_set[ev[s]]
    /\ pause_set'[ev[s]] /\ ~stop_set'[ev[s]]

\* C31: a loop that finds its pause flag set (stop flag clear) at the pause
\* poll goes round between the loop head and the poll for as long as the
\* flag stays set: its decoder position does not move (no read, no seek
\* applied), it does not reach the write, and its own steps change neither
\* the pending seek nor the published position.
C31_PausedLoopDoesNothing ==
    [][ \A s \in Sessions :
          StaysPaused(s)
          => /\ pc'[s] \in {"while", "pause_check"}
             /\ cursor'[s] = cursor[s]
             /\ pc'[s] # pc[s]
                  => (position' = position /\ seek_to_seconds' = seek_to_seconds) ]_vars

\* The loop has seen the pause flag after its first block and is back at the
\* poll, the position it published unchanged.
C31_Witness ==
    /\ state = PAUSED /\ Len(snap) = 2
    /\ \E s \in CurrentLoops :
          /\ pc[s] = "pause_check" /\ pause_set[ev[s]] /\ ~stop_set[ev[s]]
          /\ cursor[s] = BUFFER_FRAMES /\ position = BUFFER_FRAMES

\* C32: when the loop of the current session runs its exit block while state
\* is Stopped, whatever made it leave the streaming path (the stop flag, the
\* end of the file, a failed write), state stays Stopped and the exit step
\* leaves current_track None and position 0.
C32_StoppedExitKeepsStopped ==
    [][ \A s \in Sessions :
          (Exits(s) /\ ev[s] = cur /\ state = STOPPED)
          => (state' = STOPPED /\ current_track' = None /\ position' = 0) ]_vars

\* The first half of C32 on its own: no exit step takes state from Stopped
\* to Idle.
C32_NoStoppedToIdle ==
    [][ (state = STOPPED /\ \E s \in Sessions : Exits(s)) => state' = STOPPED ]_vars

\* C33 as stated: one analysis for every fft_size samples pushed, however
\* they were split into blocks: the count of analyses is the number of whole
\* buffers in the total pushed.
C33_AnalysisPerRefill == viz.analyses = Len(viz.pushed) \div fft_size

\* The part of C33 about the start: no analysis before fft_size samples have
\* been pushed.
C33_NoAnalysisBeforeFull == viz.analyses > 0 => Len(viz.pushed) >= fft_size

\* C34 as stated: the exit step of a loop that a later play() has superseded
\* changes none of the session fields, whatever the two tracks are.
C34_StaleExitChangesNothing ==
    [][ \A s \in Sessions :
          (Exits(s) /\ ev[s] # cur)
          => UNCHANGED <<state, current_track, position, bitperfect,
                         bitperfect_reason>> ]_vars

\* The same for two different tracks only.
C34_StaleExitOtherTrack ==
    [][ \A s \in Sessions :
          (Exits(s) /\ ev[s] # cur /\ ~OwnsSession(s))
          => UNCHANGED <<state, current_track, position, bitperfect,
                         bitperfect_reason>> ]_vars

\* C35 as stated: whenever no streaming loop is alive, state is Idle or
\* Stopped and current_track is None.
C35_Quiescence ==
    Alive = {} => (state \in {IDLE, STOPPED} /\ current_track = None)

\* The part of C35 about the track: whenever no streaming loop is alive,
\* current_track is None.
C35_NoTrackWhenQuiet == Alive = {} => current_track = None

\* C36 as stated, for every statement of the loop before its exit block (the
\* exit block is the matter of C34): a step of a loop whose stop flag is set
\* changes neither bit_perfect nor bit_perfect_reason.
C36_StoppedLoopWritesNoVerdict ==
    [][ \A s \in Sessions :
          (pc[s] # "new" /\ pc'[s] # pc[s] /\ ~Exits(s) /\ stop_set[ev[s]])
          => UNCHANGED <<bitperfect, bitperfect_reason>> ]_vars

\* C36, its consequence as a state property: while the loop of the current
\* session has not opened its device, no true verdict is visible.
C36_NoVerdictBeforeOwnOpen ==
    \A s \in CurrentLoops :
        pc[s] \in {"start", "open", "open_args", "open_call"} => ~bitperfect

\* The sequence w is a prefix of the sequence r.
IsPrefix(w, r) ==
    /\ Len(w) <= Len(r)
    /\ \A i \in 1 .. Len(w) : w[i] = r[i]

\* The frame after the last block of a sequence of blocks.
EndOf(w) == w[Len(w)][1] + w[Len(w)][2]

\* C37: between two repositionings of its decoder, and so in a session with
\* no seek, the blocks a loop has written to the device are a prefix of the
\* blocks it has read from the decoder, all but at most the block in hand,
\* and the blocks read follow one another in the file, whatever pause() and
\* resume() do; and a step of the loop's body other than a seek changes the
\* published position only after a successful write, to the end of the last
\* block written.
C37_BlockSequenceIntegrity ==
    /\ [](\A s \in Sessions :
            /\ IsPrefix(blocks[s].written, blocks[s].read)
            /\ Len(blocks[s].read) - Len(blocks[s].written) <= 1
            /\ \A i \in 2 .. Len(blocks[s].read) :
                  blocks[s].read[i][1] = blocks[s].read[i - 1][1] + blocks[s].read[i - 1][2])
    /\ [][ \A s \in Sessions :
            (pc[s] \notin {"new", "done"} /\ pc'[s] # pc[s] /\ ~Exits(s)
               /\ pc[s] \notin {"initial_seek_apply", "seek_apply"}
               /\ position' # position)
            => /\ pc[s] = "position"
               /\ blocks[s].written # << >>
               /\ blocks[s].written = blocks[s].read
               /\ position' = EndOf(blocks[s].written) ]_vars

\* A loop that was paused and resumed has written both blocks of its track,
\* from frame 0, and published the position after the second.
C37_Witness ==
    /\ Len(snap) = 2
    /\ \E s \in CurrentLoops :
         /\ pc[s] = "while"
         /\ blocks[s].written = << <<0, BUFFER_FRAMES>>, <<BUFFER_FRAMES, BUFFER_FRAMES>> >>
         /\ blocks[s].written = blocks[s].read
         /\ position = 2 * BUFFER_FRAMES

\* The threads that take locks, named as the locks name their holder.
LockThreads == {<<"ctl">>} \cup {<<"loop", s>> : s \in Sessions}

LockNames == {"lock", "seek_lock"}

\* Thread t is at a with-statement for lock l, which another thread holds.
WaitsFor(t, l) ==
    /\ lk[l] \notin {<<"free">>, t}
    /\ IF t = <<"ctl">>
       THEN lk.call # << >> /\ Head(lk.call) = <<"acquire", l>>
       ELSE /\ lk.at[t[2]] \in Labels
            /\ Statement(lk.at[t[2]]).kind = "acquire"
            /\ Statement(lk.at[t[2]]).lock = l

\* Two threads each wait for a lock the other holds.
LockCycle ==
    \E t, u \in LockThreads, l, m \in LockNames :
        /\ t # u
        /\ WaitsFor(t, l) /\ lk[l] = u
        /\ WaitsFor(u, m) /\ lk[m] = t

\* C38: a thread takes a lock while it holds the other only in play(), the
\* control thread taking the seek lock inside the session lock; no thread
\* that holds the seek lock waits for the session lock; and in no state do
\* two threads each wait for a lock the other holds.
C38_NoLockCycle ==
    /\ [](~LockCycle)
    /\ [](\A t \in LockThreads : ~(lk.seek_lock = t /\ WaitsFor(t, "lock")))
    /\ [][ \A t \in LockThreads, l, m \in LockNames :
            (l # m /\ lk[l] # t /\ lk'[l] = t /\ lk[m] = t)
            => /\ t = <<"ctl">>
               /\ m = "lock"
               /\ l = "seek_lock"
               /\ lk'.call = << <<"release", "seek_lock">>, <<"start", "lock">>,
                               <<"release", "lock">> >> ]_vars

\* play() holds both locks, the seek lock taken inside the session lock,
\* while a running loop waits for the seek lock.
C38_Witness ==
    /\ lk.lock = <<"ctl">>
    /\ lk.seek_lock = <<"ctl">>
    /\ \E s \in Sessions : WaitsFor(<<"loop", s>>, "seek_lock")

\* The loops that hold a seek target they have taken and not yet applied.
InHand == {s \in Sessions : pc[s] \in {"initial_seek_apply", "seek_apply"}}

\* Loop s passes the f.seek call on the target it holds.
AppliesSeek(s) ==
    pc[s] \in {"initial_seek_apply", "seek_apply"} /\ pc'[s] # pc[s]

\* Loop s executes its read-and-clear of the slot.
TakesSeek(s) == pc[s] \in {"initial_seek", "seek"} /\ pc'[s] # pc[s]

\* C39: the slot holds at most one target, that of the most recent seek();
\* a loop that reads it empties it in the same step; every target recorded
\* and neither replaced by a later seek() nor cleared by play() is in the
\* slot or in the hand of exactly one loop, or has been through f.seek
\* once; and the frame a loop moves its decoder to is the clamp of the
\* target it took (the decoder stays where it is when f.seek raises).
C39_SingleSlotSeek ==
    /\ [](sk.live = (IF seek_to_seconds # None THEN 1 ELSE 0) + Cardinality(InHand))
    /\ [][ /\ \A s \in Sessions :
                TakesSeek(s) => (seek_secs'[s] = seek_to_seconds /\ seek_to_seconds' = None)
           /\ \A s \in Sessions :
                AppliesSeek(s) =>
                  /\ seek_secs[s] # None
                  /\ cursor'[s] \in SeekFrames(seek_secs[s][1], TrackFrames(path[s]))
                                  \cup {cursor[s]}
                  /\ sk'.live = sk.live - 1
           /\ (seek_to_seconds' # seek_to_seconds /\ seek_to_seconds' # None)
                => (ctl'[1] = "seek" /\ seek_to_seconds' = Some(SeekTarget(ctl'[2]))) ]_vars

\* Two seek() calls before the loop looked at the slot. The only play() so
\* far published position 0 and its loop has read and written one block and
\* published the position after it; seek(-BUFFER_FRAMES) has recorded target
\* 0 and published position 0; seek(3 * BUFFER_FRAMES) has recorded its
\* target over it and not yet published. The loop has emptied the slot and
\* holds the second target, the one it is about to apply; the first is
\* nowhere.
C39_Witness ==
    /\ nplays = 1
    /\ ctl = <<"seek", 3 * BUFFER_FRAMES>>
    /\ position = 0
    /\ sk.live = 1
    /\ seek_to_seconds = None
    /\ \E s \in CurrentLoops :
         /\ pc[s] = "seek_apply"
         /\ cursor[s] = BUFFER_FRAMES
         /\ seek_secs[s] = Some(3 * BUFFER_FRAMES)

\* The loop of the current session is about to read its first block.
AtFirstRead(s) == ev[s] = cur /\ pc[s] = "read" /\ blocks[s].read = << >>

\* C40 as stated: play() empties the slot and publishes position 0; a stream
\* started by a play() that found a target pending, with no seek() since,
\* reads its first block from frame 0; and a stream whose last seek() came
\* after play() took effect and before its initial seek check reads its first
\* block from the frame of that target.
C40_NoCarryOverAndInitialSeek ==
    /\ [](\A s \in Sessions :
            AtFirstRead(s) =>
              /\ (sk.first # None /\ sk.first[1] = "carried") => cursor[s] = 0
              /\ (sk.first # None /\ sk.first[1] = "after")
                    => cursor[s] = InitialSeekFrame(sk.first[2], TrackFrames(path[s])))
    /\ [][ (ctl[1] = "play" /\ ctl'[1] # "play" /\ nplays' # nplays)
             => (seek_to_seconds' = None /\ position' = 0) ]_vars

\* The part of C40 about a target recorded before play(): play() empties the
\* slot and publishes position 0, and the new stream reads its first block
\* from frame 0 when no seek() came since.
C40_NoCarryOver ==
    /\ [](\A s \in Sessions :
            (AtFirstRead(s) /\ sk.first # None /\ sk.first[1] = "carried")
            => cursor[s] = 0)
    /\ [][ (ctl[1] = "play" /\ ctl'[1] # "play" /\ nplays' # nplays)
             => (seek_to_seconds' = None /\ position' = 0) ]_vars

\* A seek past the end was pending when play() took effect; the new stream
\* is about to read its first block, from frame 0.
C40_Witness ==
    /\ sk.first = <<"carried", 3 * BUFFER_FRAMES>>
    /\ seek_to_seconds = None
    /\ \E s \in Sessions : AtFirstRead(s) /\ cursor[s] = 0

==========================================================================
